---- MODULE Spec2Model ----
(***************************************************************************)
(* wecker: alarm scheduler (package alarm), timer scheduler (package      *)
(* timer), the callbacks wired in main, and the playback controller        *)
(* (package audio).                                                        *)
(*                                                                         *)
(* Time is counted in whole seconds since a Sunday 00:00:00.  Init is the  *)
(* state after main has constructed the managers, set the callbacks and    *)
(* started the monitor loops.                                              *)
(***************************************************************************)
EXTENDS Integers, Sequences, FiniteSets, Bags, TLC

VARIABLES
    clock,          \* wall clock (time.Now()), seconds
    config,         \* *config.Config shared by the managers
    activeAlarms,   \* alarm.Manager.activeAlarms : id -> ActiveAlarm
    mpc,            \* position of alarm.Manager.monitorLoop
    tickNow,        \* monitorLoop's local `now`, received from ticker.C (0 between ticks)
    callbacks,      \* who receives the Manager's callbacks: "sink" or "main"
    pending,        \* bag of main's callback goroutines started with `go` and not finished
    lastOp,         \* the operation performed by the last step and what it returned
    crashed,        \* an unrecovered panic has ended the process
    currentProcess, \* audio.Player.currentProcess
    isPlaying,      \* audio.Player.isPlaying
    volumeRamp,     \* audio.Player.volumeRamp
    currentVolume,  \* audio.Player.currentVolume
    toneFiles,      \* audio.Player.buzzerFiles / sootherFiles
    procs,          \* external player processes that are alive
    toneWorkers,    \* goroutines running tone.PlayToneFile
    rampLoops,      \* goroutines running Player.volumeRampLoop
    soundDirs,      \* the directories include/sounds/buzzer and include/sounds/soother
    activeTimers,   \* timer.Manager.activeTimers : type -> Timer
    timerNow,       \* timer.Manager.monitorLoop's local `now` (0 between ticks)
    file,           \* pattern tool: the lines of the pattern file
    tonePc,         \* pattern tool: position of main ("main", "exec", "exit")
    commands,       \* pattern tool: main's commands, as parseFile returned them
    parseErr,       \* pattern tool: main's err ("" for nil)
    callStack,      \* pattern tool: the calls of executeCommands in progress
    played,         \* pattern tool: the tones and delays performed so far
    threads,        \* goroutine -> the instructions it has still to execute
    mutex           \* lock -> the goroutine holding it for writing, and its readers

schedVars  == <<clock, config, activeAlarms, mpc, tickNow, callbacks, pending, lastOp,
                crashed>>
playerVars == <<currentProcess, isPlaying, volumeRamp, currentVolume, toneFiles,
                procs, toneWorkers, rampLoops, soundDirs>>
timerVars  == <<activeTimers, timerNow>>
toneVars   == <<file, tonePc, commands, parseErr, callStack, played>>
lockVars   == <<threads, mutex>>
vars == <<clock, config, activeAlarms, mpc, tickNow, callbacks, pending, lastOp, crashed,
          currentProcess, isPlaying, volumeRamp, currentVolume, toneFiles,
          procs, toneWorkers, rampLoops, soundDirs, activeTimers, timerNow,
          file, tonePc, commands, parseErr, callStack, played, threads, mutex>>

----------------------------------------------------------------------------
(* Bounds                                                                  *)

\* The clock takes the values Instant(0) .. Instant(MaxInstant).
MaxInstant == 9
\* Instants that follow the first one when main's callbacks are wired.
AppInstants == 2
\* Callback goroutines that may be outstanding at once.
MaxPending == 2
\* Tone goroutines that may be running at once.
MaxWorkers == 2
\* Volume ramp goroutines that may be running at once.
MaxRamps == 1
\* Lines of a pattern file.
MaxLines == 3
\* Goroutines started with `go` that may be alive at once.
MaxGoroutines == 1

----------------------------------------------------------------------------
(* Time                                                                    *)

\* Monday 06:59:59
StartClock == 86400 + 6 * 3600 + 59 * 60 + 59

Minutes(n) == n * 60

\* The instants at which the clock is read, as seconds after 06:59:59: around
\* 07:00:00, five minutes later and an hour later, on every day.
InstantOffsets == <<0, 1, 2, 301, 302, 3601, 3602>>

Instant(k) ==
    StartClock + 86400 * (k \div Len(InstantOffsets))
               + InstantOffsets[(k % Len(InstantOffsets)) + 1]

\* time.Time.Weekday, Sunday = 0
Weekday(t) == (t \div 86400) % 7

Digit == <<"0", "1", "2", "3", "4", "5", "6", "7", "8", "9">>

TwoDigits(n) == Digit[(n \div 10) + 1] \o Digit[(n % 10) + 1]

\* t.Format("15:04:05")
Format(t) ==
    TwoDigits((t % 86400) \div 3600) \o ":" \o
    TwoDigits((t % 3600) \div 60) \o ":" \o
    TwoDigits(t % 60)

----------------------------------------------------------------------------
(* Configuration                                                           *)

SourceBuzzer  == "buzzer"
SourceSoother == "soother"
SourceMP3     == "mp3"
SourceRadio   == "radio"

AlarmIds == {1, 2}

Weekdays   == <<FALSE, TRUE, TRUE, TRUE, TRUE, TRUE, FALSE>>
MondayOnly == <<FALSE, TRUE, FALSE, FALSE, FALSE, FALSE, FALSE>>
Weekend    == <<TRUE, FALSE, FALSE, FALSE, FALSE, FALSE, TRUE>>

Alarm(id, enabled, time, days, source, value) ==
    [ID |-> id, Enabled |-> enabled, Time |-> time, Days |-> days,
     Source |-> source, Volume |-> 50, AlarmSourceValue |-> value,
     VolumeRamp |-> TRUE]

\* Alarm definitions the configuration collaborator supplies.
\* (Alarm1, Alarm2) pairs the configuration collaborator supplies
AlarmChoices ==
    { <<Alarm(1, TRUE,  "07:00",    Weekdays, SourceBuzzer, ""),
        Alarm(2, TRUE,  "07:00:01", MondayOnly, SourceBuzzer, "")>>,
      <<Alarm(1, TRUE,  "07:00:00", Weekend,  SourceBuzzer, ""),
        Alarm(2, TRUE,  "7:00",     Weekdays, SourceBuzzer, "")>>,
      <<Alarm(1, FALSE, "07:00:00", Weekdays, SourceBuzzer, ""),
        Alarm(2, TRUE,  "07:00",    Weekdays, SourceBuzzer, "")>> }

\* config.DefaultConfig
DefaultSnoozeMinutes == 5

Config(a1, a2) ==
    [Alarm1 |-> a1, Alarm2 |-> a2, SnoozeMinutes |-> DefaultSnoozeMinutes,
     SleepTimer |-> [Enabled |-> FALSE, Duration |-> 60],
     LastRadioURL |-> "", LastMP3Path |-> ""]

AlarmOf(cfg, id) == IF id = 1 THEN cfg.Alarm1 ELSE cfg.Alarm2

\* (*Alarm).IsAlarmActive panics when Days is indexed out of range.
IsAlarmActivePanics(a, t) ==
    a.Enabled /\ Weekday(t) + 1 > Len(a.Days)

\* IsAlarmActive without the "HH:MM" compatibility branch
IsAlarmActive_NoPad(a, t) ==
    IF ~a.Enabled THEN FALSE
    ELSE IF ~a.Days[Weekday(t) + 1] THEN FALSE
    ELSE Format(t) = a.Time

\* (*Alarm).IsAlarmActive
IsAlarmActive(a, t) ==
    IF ~a.Enabled THEN FALSE
    ELSE IF ~a.Days[Weekday(t) + 1] THEN FALSE
    ELSE LET currentTimeStr == Format(t)
             alarmTime == IF Len(a.Time) = 5 THEN a.Time \o ":00" ELSE a.Time
         IN  currentTimeStr = alarmTime

----------------------------------------------------------------------------
(* Pattern file discovery (audio.findToneFiles)                            *)

\* File names are sequences of one-character strings; Byte gives the byte
\* value by which Go orders strings.
Byte(c) ==
    CASE c = "-" -> 45 [] c = "." -> 46 [] c = "/" -> 47
      [] c = "E" -> 69 [] c = "N" -> 78 [] c = "O" -> 79 [] c = "T" -> 84
      [] c = "a" -> 97 [] c = "b" -> 98 [] c = "d" -> 100 [] c = "e" -> 101
      [] c = "n" -> 110 [] c = "o" -> 111 [] c = "s" -> 115 [] c = "t" -> 116
      [] c = "x" -> 120

\* strings.ToLower, per character
ToLower(c) ==
    CASE c = "E" -> "e" [] c = "N" -> "n" [] c = "O" -> "o" [] c = "T" -> "t"
      [] OTHER -> c

\* a < b for Go strings
RECURSIVE LexLess(_, _)
LexLess(a, b) ==
    IF a = << >> THEN b # << >>
    ELSE IF b = << >> THEN FALSE
    ELSE IF a[1] = b[1] THEN LexLess(Tail(a), Tail(b))
    ELSE Byte(a[1]) < Byte(b[1])

\* the characters of a name as one string
RECURSIVE Str(_)
Str(name) == IF name = << >> THEN "" ELSE name[1] \o Str(Tail(name))

\* a regular file and a directory with its entries
File(name) == [name |-> name, dir |-> FALSE, entries |-> {}]
Dir(name, entries) == [name |-> name, dir |-> TRUE, entries |-> entries]

\* strings.HasSuffix(strings.ToLower(info.Name()), ".tone")
HasToneSuffix(name) ==
    /\ Len(name) >= 5
    /\ [i \in 1 .. 5 |-> ToLower(name[Len(name) - 5 + i])] = <<".", "t", "o", "n", "e">>

\* filepath.Join
Join(path, name) == IF path = << >> THEN name ELSE path \o <<"/">> \o name

\* filepath.Walk below the directory `path`: the entries of a directory are
\* visited in the order of their names, and a directory is descended into when
\* it is visited; the callback of findToneFiles keeps the pattern files.
RECURSIVE Walk(_, _)
Walk(path, entries) ==
    IF entries = {} THEN << >>
    ELSE LET first == CHOOSE e \in entries :
                          \A o \in entries \ {e} : LexLess(e.name, o.name)
             here == Join(path, first.name)
         IN  (IF first.dir THEN Walk(here, first.entries)
              ELSE IF HasToneSuffix(first.name) THEN <<here>>
              ELSE << >>)
             \o Walk(path, entries \ {first})

\* a directory that cannot be read, and one that holds the given entries
MissingDir == [exists |-> FALSE, root |-> "", entries |-> {}]
SoundDir(root, entries) == [exists |-> TRUE, root |-> root, entries |-> entries]

\* audio.findToneFiles: the paths collected by the walk; a directory that
\* cannot be read gives the empty list
findToneFiles(d) ==
    IF ~d.exists THEN << >>
    ELSE LET found == Walk(<< >>, d.entries)
         IN  [i \in 1 .. Len(found) |-> d.root \o "/" \o Str(found[i])]

\* Player.discoverToneFiles
discoverToneFiles(dirs) ==
    [buzzer |-> findToneFiles(dirs.buzzer), soother |-> findToneFiles(dirs.soother)]

----------------------------------------------------------------------------
(* alarm.Manager                                                           *)

StateOff       == 0
StateActive    == 1
StateSnoozed   == 2
StateTriggered == 3

ValidSnoozeMinutes == {5, 7, 10, 15, 30, 45, 60, 90, 120}

\* a callback goroutine: go m.callbacks.On...(...)
Callback(kind, id, arg) == [kind |-> kind, id |-> id, arg |-> arg, pc |-> "start"]

OneOf(cb) == SetToBag({cb})

Running == ~crashed

NoEvents == EmptyBag

\* what the last step did: the operation, its argument, its return value, the
\* time it read and the callbacks it dispatched
Op(op, id, ret, at, events) ==
    [op |-> op, id |-> id, ret |-> ret, at |-> at, events |-> events,
     arg |-> [none |-> TRUE]]

\* the same for an operation of the player, with the arguments of the call
PlayerOp(op, arg, ret) ==
    [op |-> op, id |-> 0, ret |-> ret, at |-> clock, events |-> NoEvents, arg |-> arg]

\* `go m.callbacks.On...()`: a callback of the notification sink returns at
\* once and touches nothing; a callback of main is a goroutine that runs on.
Dispatch(cbs) ==
    IF callbacks = "main"
    THEN /\ BagCardinality(pending (+) cbs) <= MaxPending
         /\ pending' = pending (+) cbs
    ELSE UNCHANGED pending

\* Manager.GetAlarmState
GetAlarmState(id) ==
    IF id \in DOMAIN activeAlarms THEN activeAlarms[id].State ELSE StateOff

\* The wall clock moves on to the next instant.
Advance ==
    /\ Running
    /\ \E k \in 0 .. MaxInstant - 1 :
          /\ clock = Instant(k)
          /\ clock' = Instant(k + 1)
    /\ lastOp' = Op("Advance", 0, TRUE, clock, NoEvents)
    /\ UNCHANGED <<config, activeAlarms, mpc, tickNow, callbacks, pending, crashed>>
    /\ UNCHANGED playerVars
    /\ UNCHANGED timerVars
    /\ UNCHANGED toneVars
    /\ UNCHANGED lockVars

\* monitorLoop: case now := <-ticker.C
TickRecv ==
    /\ Running
    /\ mpc = "wait"
    /\ tickNow' = clock
    /\ mpc' = "checkAlarms"
    /\ lastOp' = Op("TickRecv", 0, TRUE, clock, NoEvents)
    /\ UNCHANGED <<clock, config, activeAlarms, callbacks, pending, crashed>>
    /\ UNCHANGED playerVars
    /\ UNCHANGED timerVars
    /\ UNCHANGED toneVars
    /\ UNCHANGED lockVars

\* triggerAlarm creating the instance in the unused state StateActive
triggerAlarm_Active(id, now) ==
    [State |-> StateActive, StartTime |-> now, SnoozeUntil |-> 0]

\* Manager.triggerAlarm
triggerAlarm(id, now) ==
    [State |-> StateTriggered, StartTime |-> now, SnoozeUntil |-> 0]

\* checkAlarms without the `!exists` test
ToTrigger_NoExistsTest(now) ==
    { id \in AlarmIds : IsAlarmActive(AlarmOf(config, id), now) }

\* the alarms Manager.checkAlarms hands to triggerAlarm
ToTrigger(now) ==
    { id \in AlarmIds : /\ IsAlarmActive(AlarmOf(config, id), now)
                        /\ id \notin DOMAIN activeAlarms }

\* Manager.checkAlarms
checkAlarms ==
    /\ Running
    /\ mpc = "checkAlarms"
    /\ IF \E id \in AlarmIds : IsAlarmActivePanics(AlarmOf(config, id), tickNow)
       THEN /\ crashed' = TRUE
            /\ lastOp' = Op("checkAlarms", 0, FALSE, tickNow, NoEvents)
            /\ UNCHANGED <<activeAlarms, pending, mpc>>
       ELSE LET trig == ToTrigger(tickNow)
                events == SetToBag({Callback("Triggered", id, 0) : id \in trig})
            IN  /\ activeAlarms' =
                       [id \in DOMAIN activeAlarms \cup trig |->
                           IF id \in trig THEN triggerAlarm(id, tickNow)
                                          ELSE activeAlarms[id]]
                /\ Dispatch(events)
                /\ lastOp' = Op("checkAlarms", 0, TRUE, tickNow, events)
                /\ mpc' = "updateActiveAlarms"
                /\ UNCHANGED crashed
    /\ UNCHANGED <<clock, config, tickNow, callbacks>>
    /\ UNCHANGED playerVars
    /\ UNCHANGED timerVars
    /\ UNCHANGED toneVars
    /\ UNCHANGED lockVars

\* the 60-minute check with > in place of >=
TimedOut_Strict(id, now) ==
    /\ id \in DOMAIN activeAlarms
    /\ activeAlarms[id].State = StateTriggered
    /\ now - activeAlarms[id].StartTime > Minutes(60)

\* updateActiveAlarms without the 60-minute case
TimedOut_Never(id, now) == FALSE

\* updateActiveAlarms, case StateTriggered: running for 60 minutes
TimedOut(id, now) ==
    /\ id \in DOMAIN activeAlarms
    /\ activeAlarms[id].State = StateTriggered
    /\ now - activeAlarms[id].StartTime >= Minutes(60)

\* the snooze check with !now.Before(SnoozeUntil) in place of now.After
SnoozeElapsed_NotBefore(id, now) ==
    /\ id \in DOMAIN activeAlarms
    /\ activeAlarms[id].State = StateSnoozed
    /\ now >= activeAlarms[id].SnoozeUntil

\* updateActiveAlarms, case StateSnoozed: now.After(SnoozeUntil)
SnoozeElapsed(id, now) ==
    /\ id \in DOMAIN activeAlarms
    /\ activeAlarms[id].State = StateSnoozed
    /\ now > activeAlarms[id].SnoozeUntil

\* updateActiveAlarms starting the 60 minutes afresh when a snooze ends
updateActiveAlarms_Restart ==
    /\ Running
    /\ mpc = "updateActiveAlarms"
    /\ LET stop == { id \in DOMAIN activeAlarms : TimedOut(id, tickNow) }
           retrig == { id \in DOMAIN activeAlarms : SnoozeElapsed(id, tickNow) }
           events == SetToBag({Callback("Stopped", id, 0) : id \in stop})
                     (+) SetToBag({Callback("Triggered", id, 0) : id \in retrig})
       IN  /\ activeAlarms' =
                  [id \in DOMAIN activeAlarms \ stop |->
                      IF id \in retrig
                      THEN [activeAlarms[id] EXCEPT !.State = StateTriggered,
                                                    !.StartTime = tickNow]
                      ELSE activeAlarms[id]]
           /\ Dispatch(events)
           /\ lastOp' = Op("updateActiveAlarms", 0, TRUE, tickNow, events)
    /\ mpc' = "wait"
    /\ tickNow' = 0
    /\ UNCHANGED <<clock, config, callbacks, crashed>>
    /\ UNCHANGED playerVars
    /\ UNCHANGED timerVars
    /\ UNCHANGED toneVars
    /\ UNCHANGED lockVars

\* Manager.updateActiveAlarms
updateActiveAlarms ==
    /\ Running
    /\ mpc = "updateActiveAlarms"
    /\ LET stop == { id \in DOMAIN activeAlarms : TimedOut(id, tickNow) }
           retrig == { id \in DOMAIN activeAlarms : SnoozeElapsed(id, tickNow) }
           events == SetToBag({Callback("Stopped", id, 0) : id \in stop})
                     (+) SetToBag({Callback("Triggered", id, 0) : id \in retrig})
       IN  /\ activeAlarms' =
                  [id \in DOMAIN activeAlarms \ stop |->
                      IF id \in retrig
                      THEN [activeAlarms[id] EXCEPT !.State = StateTriggered]
                      ELSE activeAlarms[id]]
           /\ Dispatch(events)
           /\ lastOp' = Op("updateActiveAlarms", 0, TRUE, tickNow, events)
    /\ mpc' = "wait"
    /\ tickNow' = 0
    /\ UNCHANGED <<clock, config, callbacks, crashed>>
    /\ UNCHANGED playerVars
    /\ UNCHANGED timerVars
    /\ UNCHANGED toneVars
    /\ UNCHANGED lockVars

\* SnoozeAlarm without the State != StateTriggered test
SnoozeAlarm_NoStateCheck(id) ==
    /\ Running
    /\ IF id \notin DOMAIN activeAlarms
       THEN /\ lastOp' = Op("SnoozeAlarm", id, FALSE, clock, NoEvents)
            /\ UNCHANGED <<activeAlarms, pending>>
       ELSE LET snoozeDuration == Minutes(config.SnoozeMinutes)
                events == OneOf(Callback("Snoozed", id, snoozeDuration))
            IN  /\ activeAlarms' =
                       [activeAlarms EXCEPT ![id].State = StateSnoozed,
                                            ![id].SnoozeUntil = clock + snoozeDuration]
                /\ Dispatch(events)
                /\ lastOp' = Op("SnoozeAlarm", id, TRUE, clock, events)
    /\ UNCHANGED <<clock, config, mpc, tickNow, callbacks, crashed>>
    /\ UNCHANGED playerVars
    /\ UNCHANGED timerVars
    /\ UNCHANGED toneVars
    /\ UNCHANGED lockVars

\* SnoozeAlarm taking the duration as seconds (the * time.Minute left out)
SnoozeAlarm_Seconds(id) ==
    /\ Running
    /\ IF id \notin DOMAIN activeAlarms \/ GetAlarmState(id) # StateTriggered
       THEN /\ lastOp' = Op("SnoozeAlarm", id, FALSE, clock, NoEvents)
            /\ UNCHANGED <<activeAlarms, pending>>
       ELSE LET snoozeDuration == config.SnoozeMinutes
                events == OneOf(Callback("Snoozed", id, snoozeDuration))
            IN  /\ activeAlarms' =
                       [activeAlarms EXCEPT ![id].State = StateSnoozed,
                                            ![id].SnoozeUntil = clock + snoozeDuration]
                /\ Dispatch(events)
                /\ lastOp' = Op("SnoozeAlarm", id, TRUE, clock, events)
    /\ UNCHANGED <<clock, config, mpc, tickNow, callbacks, crashed>>
    /\ UNCHANGED playerVars
    /\ UNCHANGED timerVars
    /\ UNCHANGED toneVars
    /\ UNCHANGED lockVars

\* Manager.SnoozeAlarm
SnoozeAlarm(id) ==
    /\ Running
    /\ IF id \notin DOMAIN activeAlarms \/ GetAlarmState(id) # StateTriggered
       THEN /\ lastOp' = Op("SnoozeAlarm", id, FALSE, clock, NoEvents)
            /\ UNCHANGED <<activeAlarms, pending>>
       ELSE LET snoozeDuration == Minutes(config.SnoozeMinutes)
                events == OneOf(Callback("Snoozed", id, snoozeDuration))
            IN  /\ activeAlarms' =
                       [activeAlarms EXCEPT ![id].State = StateSnoozed,
                                            ![id].SnoozeUntil = clock + snoozeDuration]
                /\ Dispatch(events)
                /\ lastOp' = Op("SnoozeAlarm", id, TRUE, clock, events)
    /\ UNCHANGED <<clock, config, mpc, tickNow, callbacks, crashed>>
    /\ UNCHANGED playerVars
    /\ UNCHANGED timerVars
    /\ UNCHANGED toneVars
    /\ UNCHANGED lockVars

\* StopAlarm refusing an instance that is not Triggered
StopAlarm_TriggeredOnly(id) ==
    /\ Running
    /\ IF id \notin DOMAIN activeAlarms \/ GetAlarmState(id) # StateTriggered
       THEN /\ lastOp' = Op("StopAlarm", id, FALSE, clock, NoEvents)
            /\ UNCHANGED <<activeAlarms, pending>>
       ELSE LET events == OneOf(Callback("Stopped", id, 0))
            IN  /\ activeAlarms' =
                       [i \in DOMAIN activeAlarms \ {id} |-> activeAlarms[i]]
                /\ Dispatch(events)
                /\ lastOp' = Op("StopAlarm", id, TRUE, clock, events)
    /\ UNCHANGED <<clock, config, mpc, tickNow, callbacks, crashed>>
    /\ UNCHANGED playerVars
    /\ UNCHANGED timerVars
    /\ UNCHANGED toneVars
    /\ UNCHANGED lockVars

\* Manager.stopAlarmInternal / Manager.StopAlarm
StopAlarm(id) ==
    /\ Running
    /\ IF id \notin DOMAIN activeAlarms
       THEN /\ lastOp' = Op("StopAlarm", id, FALSE, clock, NoEvents)
            /\ UNCHANGED <<activeAlarms, pending>>
       ELSE LET events == OneOf(Callback("Stopped", id, 0))
            IN  /\ activeAlarms' =
                       [i \in DOMAIN activeAlarms \ {id} |-> activeAlarms[i]]
                /\ Dispatch(events)
                /\ lastOp' = Op("StopAlarm", id, TRUE, clock, events)
    /\ UNCHANGED <<clock, config, mpc, tickNow, callbacks, crashed>>
    /\ UNCHANGED playerVars
    /\ UNCHANGED timerVars
    /\ UNCHANGED toneVars
    /\ UNCHANGED lockVars

\* SetSnoozeTime storing whatever it is given
SetSnoozeTime_NoCheck(minutes) ==
    /\ Running
    /\ config' = [config EXCEPT !.SnoozeMinutes = minutes]
    /\ lastOp' = Op("SetSnoozeTime", minutes, TRUE, clock, NoEvents)
    /\ UNCHANGED <<clock, activeAlarms, mpc, tickNow, callbacks, pending, crashed>>
    /\ UNCHANGED playerVars
    /\ UNCHANGED timerVars
    /\ UNCHANGED toneVars
    /\ UNCHANGED lockVars

\* Manager.SetSnoozeTime
SetSnoozeTime(minutes) ==
    /\ Running
    /\ config' = IF minutes \in ValidSnoozeMinutes
                 THEN [config EXCEPT !.SnoozeMinutes = minutes]
                 ELSE config
    /\ lastOp' = Op("SetSnoozeTime", minutes, TRUE, clock, NoEvents)
    /\ UNCHANGED <<clock, activeAlarms, mpc, tickNow, callbacks, pending, crashed>>
    /\ UNCHANGED playerVars
    /\ UNCHANGED timerVars
    /\ UNCHANGED toneVars
    /\ UNCHANGED lockVars

----------------------------------------------------------------------------
(* Specification of the alarm scheduler                                    *)

\* values the user interface passes to SetSnoozeTime
SnoozeInputs == {5, 60, 6}

\* audio.NewPlayer, with the sound directories dirs on disk
NewPlayer(dirs) ==
    /\ currentProcess = << >>
    /\ isPlaying = FALSE
    /\ volumeRamp = FALSE
    /\ currentVolume = 0
    /\ soundDirs = dirs
    /\ toneFiles = discoverToneFiles(dirs)
    /\ procs = EmptyBag
    /\ toneWorkers = EmptyBag
    /\ rampLoops = EmptyBag

InitPlayer == NewPlayer([buzzer |-> MissingDir, soother |-> MissingDir])

\* timer.NewManager
InitTimer ==
    /\ activeTimers = << >>
    /\ timerNow = 0

\* the pattern tool before main runs
InitTone(lines) ==
    /\ file = lines
    /\ tonePc = "main"
    /\ commands = << >>
    /\ parseErr = ""
    /\ callStack = << >>
    /\ played = << >>

\* the goroutines of the two monitor loops, the user interface and the
\* goroutines started with `go`
AlarmLoop == "alarmLoop"
TimerLoop == "timerLoop"
UI        == "ui"
GoNames   == <<"go1", "go2", "go3", "go4">>
Goroutines == { GoNames[i] : i \in 1 .. MaxGoroutines }
ThreadIds == {AlarmLoop, TimerLoop, UI} \cup Goroutines

\* Manager.mutex of the two schedulers and Player.mutex
AlarmMutex  == "alarm"
TimerMutex  == "timer"
PlayerMutex == "player"
Locks == {AlarmMutex, TimerMutex, PlayerMutex}

NoThread == ""

\* every goroutine idle, every lock free
InitLocks ==
    /\ threads = [t \in ThreadIds |-> << >>]
    /\ mutex = [l \in Locks |-> [writer |-> NoThread, readers |-> {}]]

InitSched(start) ==
    /\ clock = start
    /\ activeAlarms = << >>
    /\ mpc = "wait"
    /\ tickNow = 0
    /\ pending = EmptyBag
    /\ lastOp = Op("Init", 0, TRUE, start, NoEvents)
    /\ crashed = FALSE

Init ==
    /\ InitSched(StartClock)
    /\ callbacks = "sink"
    /\ config \in { Config(c[1], c[2]) : c \in AlarmChoices }
    /\ InitPlayer
    /\ InitTimer
    /\ InitTone(<< >>)
    /\ InitLocks

Next ==
    \/ Advance
    \/ TickRecv
    \/ checkAlarms
    \/ updateActiveAlarms
    \/ \E id \in AlarmIds : SnoozeAlarm(id)
    \/ \E id \in AlarmIds : StopAlarm(id)
    \/ \E n \in SnoozeInputs : SetSnoozeTime(n)

Spec == Init /\ [][Next]_vars

TypeOK ==
    /\ clock \in Nat
    /\ DOMAIN activeAlarms \subseteq AlarmIds
    /\ mpc \in {"wait", "checkAlarms", "updateActiveAlarms"}
    /\ crashed \in BOOLEAN

----------------------------------------------------------------------------
(* timer.Manager                                                           *)

TypeSleep  == 0
TypeSnooze == 1

TimerTypes == {TypeSleep, TypeSnooze}

ValidSnoozeTimerMinutes == {5, 10, 15, 30}

\* &Timer{...} as StartSleepTimer and StartSnoozeTimer build it
Timer(type, now, duration) ==
    [Type |-> type, StartTime |-> now, Duration |-> duration,
     EndTime |-> now + duration, IsActive |-> TRUE]

\* Manager.IsTimerActive
IsTimerActive(timerType) ==
    timerType \in DOMAIN activeTimers /\ activeTimers[timerType].IsActive

\* GetTimeRemaining without the remaining < 0 test
GetTimeRemaining_Unclamped(timerType) ==
    IF ~IsTimerActive(timerType) THEN 0
    ELSE activeTimers[timerType].EndTime - clock

\* Manager.GetTimeRemaining
GetTimeRemaining(timerType) ==
    IF ~IsTimerActive(timerType) THEN 0
    ELSE LET remaining == activeTimers[timerType].EndTime - clock
         IN  IF remaining < 0 THEN 0 ELSE remaining

\* timer monitorLoop: case now := <-ticker.C
TimerTickRecv ==
    /\ Running
    /\ timerNow = 0
    /\ timerNow' = clock
    /\ lastOp' = Op("TimerTickRecv", 0, TRUE, clock, NoEvents)
    /\ UNCHANGED <<clock, config, activeAlarms, mpc, tickNow, callbacks, pending, crashed>>
    /\ UNCHANGED activeTimers
    /\ UNCHANGED playerVars
    /\ UNCHANGED toneVars
    /\ UNCHANGED lockVars

\* the callback checkTimers starts for an expired timer
ExpiredCallback(timerType) ==
    Callback(IF timerType = TypeSleep THEN "SleepTimerExpired" ELSE "SnoozeTimerExpired",
             timerType, 0)

\* checkTimers with !now.Before(timer.EndTime) in place of now.After
checkTimers_NotBefore ==
    /\ Running
    /\ timerNow # 0
    /\ LET expired == { t \in DOMAIN activeTimers :
                           activeTimers[t].IsActive /\ timerNow >= activeTimers[t].EndTime }
           events == SetToBag({ ExpiredCallback(t) : t \in expired })
       IN  /\ activeTimers' = [t \in DOMAIN activeTimers \ expired |-> activeTimers[t]]
           /\ Dispatch(events)
           /\ lastOp' = Op("checkTimers", 0, TRUE, timerNow, events)
    /\ timerNow' = 0
    /\ UNCHANGED <<clock, config, activeAlarms, mpc, tickNow, callbacks, crashed>>
    /\ UNCHANGED playerVars
    /\ UNCHANGED toneVars
    /\ UNCHANGED lockVars

\* checkTimers leaving the expired timers in the map
checkTimers_KeepsExpired ==
    /\ Running
    /\ timerNow # 0
    /\ LET expired == { t \in DOMAIN activeTimers :
                           activeTimers[t].IsActive /\ timerNow > activeTimers[t].EndTime }
           events == SetToBag({ ExpiredCallback(t) : t \in expired })
       IN  /\ UNCHANGED activeTimers
           /\ Dispatch(events)
           /\ lastOp' = Op("checkTimers", 0, TRUE, timerNow, events)
    /\ timerNow' = 0
    /\ UNCHANGED <<clock, config, activeAlarms, mpc, tickNow, callbacks, crashed>>
    /\ UNCHANGED playerVars
    /\ UNCHANGED toneVars
    /\ UNCHANGED lockVars

\* Manager.checkTimers
checkTimers ==
    /\ Running
    /\ timerNow # 0
    /\ LET expired == { t \in DOMAIN activeTimers :
                           activeTimers[t].IsActive /\ timerNow > activeTimers[t].EndTime }
           events == SetToBag({ ExpiredCallback(t) : t \in expired })
       IN  /\ activeTimers' = [t \in DOMAIN activeTimers \ expired |-> activeTimers[t]]
           /\ Dispatch(events)
           /\ lastOp' = Op("checkTimers", 0, TRUE, timerNow, events)
    /\ timerNow' = 0
    /\ UNCHANGED <<clock, config, activeAlarms, mpc, tickNow, callbacks, crashed>>
    /\ UNCHANGED playerVars
    /\ UNCHANGED toneVars
    /\ UNCHANGED lockVars

\* StartTimer assigning a fresh map that holds the new timer alone
StartTimer_FreshMap(op, timerType, minutes) ==
    LET duration == Minutes(minutes)
        events == OneOf(Callback("TimerStarted", timerType, duration))
    IN  /\ activeTimers' = [t \in {timerType} |-> Timer(timerType, clock, duration)]
        /\ Dispatch(events)
        /\ lastOp' = Op(op, minutes, TRUE, clock, events)

\* the timer of type timerType is installed, replacing the one that was there
StartTimer(op, timerType, minutes) ==
    LET duration == Minutes(minutes)
        events == OneOf(Callback("TimerStarted", timerType, duration))
    IN  /\ activeTimers' =
               [t \in DOMAIN activeTimers \cup {timerType} |->
                   IF t = timerType THEN Timer(timerType, clock, duration)
                   ELSE activeTimers[t]]
        /\ Dispatch(events)
        /\ lastOp' = Op(op, minutes, TRUE, clock, events)

\* a start request is refused
RefuseTimer(op, minutes) ==
    /\ lastOp' = Op(op, minutes, FALSE, clock, NoEvents)
    /\ UNCHANGED <<activeTimers, pending>>

\* StartSleepTimer accepting only the options of GetSleepTimerOptions
StartSleepTimer_OptionsOnly(minutes) ==
    /\ Running
    /\ IF minutes \notin {15, 30, 45, 60, 90, 120}
       THEN RefuseTimer("StartSleepTimer", minutes)
       ELSE StartTimer("StartSleepTimer", TypeSleep, minutes)
    /\ UNCHANGED <<clock, config, activeAlarms, mpc, tickNow, callbacks, crashed>>
    /\ UNCHANGED timerNow
    /\ UNCHANGED playerVars
    /\ UNCHANGED toneVars
    /\ UNCHANGED lockVars

\* Manager.StartSleepTimer
StartSleepTimer(minutes) ==
    /\ Running
    /\ IF minutes < 5 \/ minutes > 120
       THEN RefuseTimer("StartSleepTimer", minutes)
       ELSE StartTimer("StartSleepTimer", TypeSleep, minutes)
    /\ UNCHANGED <<clock, config, activeAlarms, mpc, tickNow, callbacks, crashed>>
    /\ UNCHANGED timerNow
    /\ UNCHANGED playerVars
    /\ UNCHANGED toneVars
    /\ UNCHANGED lockVars

\* StartSnoozeTimer accepting the snooze minutes of the alarm manager
StartSnoozeTimer_AlarmMinutes(minutes) ==
    /\ Running
    /\ IF minutes \notin ValidSnoozeMinutes
       THEN RefuseTimer("StartSnoozeTimer", minutes)
       ELSE StartTimer("StartSnoozeTimer", TypeSnooze, minutes)
    /\ UNCHANGED <<clock, config, activeAlarms, mpc, tickNow, callbacks, crashed>>
    /\ UNCHANGED timerNow
    /\ UNCHANGED playerVars
    /\ UNCHANGED toneVars
    /\ UNCHANGED lockVars

\* Manager.StartSnoozeTimer
StartSnoozeTimer(minutes) ==
    /\ Running
    /\ IF minutes \notin ValidSnoozeTimerMinutes
       THEN RefuseTimer("StartSnoozeTimer", minutes)
       ELSE StartTimer("StartSnoozeTimer", TypeSnooze, minutes)
    /\ UNCHANGED <<clock, config, activeAlarms, mpc, tickNow, callbacks, crashed>>
    /\ UNCHANGED timerNow
    /\ UNCHANGED playerVars
    /\ UNCHANGED toneVars
    /\ UNCHANGED lockVars

\* StopTimer without the test for an active timer
StopTimer_Unchecked(timerType) ==
    /\ Running
    /\ LET events == OneOf(Callback("TimerStopped", timerType, 0))
       IN  /\ activeTimers' =
                  [t \in DOMAIN activeTimers \ {timerType} |-> activeTimers[t]]
           /\ Dispatch(events)
           /\ lastOp' = Op("StopTimer", timerType, TRUE, clock, events)
    /\ UNCHANGED <<clock, config, activeAlarms, mpc, tickNow, callbacks, crashed>>
    /\ UNCHANGED timerNow
    /\ UNCHANGED playerVars
    /\ UNCHANGED toneVars
    /\ UNCHANGED lockVars

\* Manager.StopTimer
StopTimer(timerType) ==
    /\ Running
    /\ IF ~IsTimerActive(timerType)
       THEN /\ lastOp' = Op("StopTimer", timerType, FALSE, clock, NoEvents)
            /\ UNCHANGED <<activeTimers, pending>>
       ELSE LET events == OneOf(Callback("TimerStopped", timerType, 0))
            IN  /\ activeTimers' =
                       [t \in DOMAIN activeTimers \ {timerType} |-> activeTimers[t]]
                /\ Dispatch(events)
                /\ lastOp' = Op("StopTimer", timerType, TRUE, clock, events)
    /\ UNCHANGED <<clock, config, activeAlarms, mpc, tickNow, callbacks, crashed>>
    /\ UNCHANGED timerNow
    /\ UNCHANGED playerVars
    /\ UNCHANGED toneVars
    /\ UNCHANGED lockVars

----------------------------------------------------------------------------
(* audio.Player                                                            *)

max(a, b) == IF a > b THEN a ELSE b
min(a, b) == IF a < b THEN a ELSE b

\* *exec.Cmd: the command line and whether Start succeeded (Process != nil)
Cmd(path, volume, started) == [path |-> path, volume |-> volume, started |-> started]

NoProcess == << >>

\* a goroutine started by `go p.volumeRampLoop(targetVolume)`.  stopped is a
\* history field: stopInternal has run since the goroutine was started.
RampLoop(targetVolume) ==
    [targetVolume |-> targetVolume, currentVol |-> 0, pc |-> "entry", stopped |-> FALSE]

\* the history field of every running ramp goroutine set
MarkStopped(loops) ==
    LET marked == { [l EXCEPT !.stopped = TRUE] : l \in DOMAIN loops }
        Count(l) == IF l \in DOMAIN loops THEN loops[l] ELSE 0
    IN  [m \in marked |-> Count(m) + Count([m EXCEPT !.stopped = FALSE])]

\* the Player's fields, and the processes and goroutines it has started
PlayerState ==
    [currentProcess |-> currentProcess, isPlaying |-> isPlaying,
     volumeRamp |-> volumeRamp, currentVolume |-> currentVolume,
     procs |-> procs, toneWorkers |-> toneWorkers, rampLoops |-> rampLoops,
     err |-> FALSE, panic |-> FALSE]

\* Player.stopInternal.  Process.Kill on a Cmd whose Start failed dereferences
\* the nil Process.
stopInternal(p) ==
    IF p.currentProcess # NoProcess
    THEN IF ~p.currentProcess[1].started
         THEN [p EXCEPT !.panic = TRUE]
         ELSE [p EXCEPT !.procs = @ (-) OneOf(p.currentProcess[1]),
                        !.currentProcess = NoProcess,
                        !.isPlaying = FALSE,
                        !.volumeRamp = FALSE,
                        !.rampLoops = MarkStopped(@)]
    ELSE [p EXCEPT !.isPlaying = FALSE, !.volumeRamp = FALSE,
                   !.rampLoops = MarkStopped(@)]

\* Player.startPlayback; startOK is the outcome of exec.Cmd.Start
startPlayback(p, audioPath, volume, rampVolume, startOK) ==
    IF audioPath = ""
    THEN [p EXCEPT !.err = TRUE]
    ELSE LET volumePercent ==
                 IF volume > 0 /\ volume <= 100
                 THEN IF rampVolume THEN max(1, volume \div 4) ELSE volume
                 ELSE 0
             cmd == Cmd(audioPath, volumePercent, startOK)
         IN  IF ~startOK
             THEN [p EXCEPT !.currentProcess = <<cmd>>, !.err = TRUE]
             ELSE [p EXCEPT !.currentProcess = <<cmd>>,
                            !.procs = @ (+) OneOf(cmd),
                            !.isPlaying = TRUE,
                            !.currentVolume = volume,
                            !.volumeRamp = rampVolume,
                            !.rampLoops = IF rampVolume
                                          THEN @ (+) OneOf(RampLoop(volume))
                                          ELSE @]

\* the tone branch taking the last discovered file instead of the first
playTone_Last(p, alarm, files) ==
    IF alarm.AlarmSourceValue = "" /\ Len(files) = 0
    THEN [p EXCEPT !.err = TRUE]
    ELSE LET toneFile == IF alarm.AlarmSourceValue # ""
                         THEN alarm.AlarmSourceValue ELSE files[Len(files)]
         IN  [p EXCEPT !.isPlaying = TRUE,
                       !.currentVolume = alarm.Volume,
                       !.toneWorkers = @ (+) OneOf(toneFile)]

\* PlayAlarm, case SourceBuzzer / SourceSoother
playTone(p, alarm, files) ==
    IF alarm.AlarmSourceValue = "" /\ Len(files) = 0
    THEN [p EXCEPT !.err = TRUE]
    ELSE LET toneFile == IF alarm.AlarmSourceValue # ""
                         THEN alarm.AlarmSourceValue ELSE files[1]
         IN  [p EXCEPT !.isPlaying = TRUE,
                       !.currentVolume = alarm.Volume,
                       !.toneWorkers = @ (+) OneOf(toneFile)]

\* Player.PlayAlarm, from the player state p
PlayAlarmFrom(p, alarm, startOK) ==
    LET q == stopInternal(p)
    IN  IF q.panic THEN q
        ELSE CASE alarm.Source = SourceBuzzer ->
                    playTone(q, alarm, toneFiles.buzzer)
               [] alarm.Source = SourceSoother ->
                    playTone(q, alarm, toneFiles.soother)
               [] alarm.Source = SourceMP3 ->
                    startPlayback(q,
                        IF alarm.AlarmSourceValue = "" THEN config.LastMP3Path
                        ELSE alarm.AlarmSourceValue,
                        alarm.Volume, alarm.VolumeRamp, startOK)
               [] alarm.Source = SourceRadio ->
                    startPlayback(q,
                        IF alarm.AlarmSourceValue = "" THEN config.LastRadioURL
                        ELSE alarm.AlarmSourceValue,
                        alarm.Volume, alarm.VolumeRamp, startOK)
               [] OTHER -> [q EXCEPT !.err = TRUE]

\* Player.PlaySleepAudio, from the player state p
PlaySleepAudioFrom(p, startOK) ==
    LET q == stopInternal(p)
    IN  IF q.panic THEN q
        ELSE IF config.LastRadioURL # ""
             THEN startPlayback(q, config.LastRadioURL, 50, FALSE, startOK)
        ELSE IF config.LastMP3Path # ""
             THEN startPlayback(q, config.LastMP3Path, 50, FALSE, startOK)
        ELSE IF Len(toneFiles.soother) > 0
             THEN [q EXCEPT !.isPlaying = TRUE,
                            !.currentVolume = 50,
                            !.toneWorkers = @ (+) OneOf(toneFiles.soother[1])]
        ELSE [q EXCEPT !.err = TRUE]

\* the player state r becomes the state of the Player; a panic ends the process
SetPlayer(r) ==
    /\ currentProcess' = r.currentProcess
    /\ isPlaying' = r.isPlaying
    /\ volumeRamp' = r.volumeRamp
    /\ currentVolume' = r.currentVolume
    /\ procs' = r.procs
    /\ toneWorkers' = r.toneWorkers
    /\ rampLoops' = r.rampLoops
    /\ crashed' = r.panic
    /\ UNCHANGED <<toneFiles, soundDirs>>

\* playbacks that make sound: external processes and tone goroutines
LivePlaybacks == BagCardinality(procs) + BagCardinality(toneWorkers)

\* the goroutines a call may leave running
WithinBounds(r) ==
    /\ BagCardinality(r.toneWorkers) <= MaxWorkers
    /\ BagCardinality(r.rampLoops) <= MaxRamps

\* Player.PlayAlarm called with the alarm definition `alarm`
PlayAlarm(alarm, startOK) ==
    /\ Running
    /\ LET r == PlayAlarmFrom(PlayerState, alarm, startOK)
       IN  /\ WithinBounds(r)
           /\ SetPlayer(r)
           /\ lastOp' = PlayerOp("PlayAlarm", [alarm |-> alarm, startOK |-> startOK],
                                 ~r.err /\ ~r.panic)
    /\ UNCHANGED <<clock, config, activeAlarms, mpc, tickNow, callbacks, pending>>
    /\ UNCHANGED timerVars
    /\ UNCHANGED toneVars
    /\ UNCHANGED lockVars

\* Player.PlaySleepAudio
PlaySleepAudio(startOK) ==
    /\ Running
    /\ LET r == PlaySleepAudioFrom(PlayerState, startOK)
       IN  /\ WithinBounds(r)
           /\ SetPlayer(r)
           /\ lastOp' = PlayerOp("PlaySleepAudio", [startOK |-> startOK], ~r.err /\ ~r.panic)
    /\ UNCHANGED <<clock, config, activeAlarms, mpc, tickNow, callbacks, pending>>
    /\ UNCHANGED timerVars
    /\ UNCHANGED toneVars
    /\ UNCHANGED lockVars

\* Player.Stop
Stop ==
    /\ Running
    /\ SetPlayer(stopInternal(PlayerState))
    /\ lastOp' = Op("Stop", 0, TRUE, clock, NoEvents)
    /\ UNCHANGED <<clock, config, activeAlarms, mpc, tickNow, callbacks, pending>>
    /\ UNCHANGED timerVars
    /\ UNCHANGED toneVars
    /\ UNCHANGED lockVars

\* tone.PlayToneFile returns: the pattern has been played to its end
ToneWorkerDone(toneFile) ==
    /\ Running
    /\ BagIn(toneFile, toneWorkers)
    /\ toneWorkers' = toneWorkers (-) OneOf(toneFile)
    /\ lastOp' = Op("ToneWorkerDone", 0, TRUE, clock, NoEvents)
    /\ UNCHANGED <<clock, config, activeAlarms, mpc, tickNow, callbacks, pending, crashed>>
    /\ UNCHANGED timerVars
    /\ UNCHANGED toneVars
    /\ UNCHANGED lockVars
    /\ UNCHANGED <<currentProcess, isPlaying, volumeRamp, currentVolume, toneFiles, procs,
                   rampLoops, soundDirs>>

\* the ramp goroutine l goes on as l2, or returns when l2 is << >>
RampGoesOn(l, l2) ==
    rampLoops' = IF l2 = << >> THEN rampLoops (-) OneOf(l)
                 ELSE (rampLoops (-) OneOf(l)) (+) OneOf(l2[1])

\* volumeRampLoop from its start to the first wait for the ticker: the test of
\* p.volumeRamp and targetVolume, startVolume, and the loop condition
volumeRampLoop(l) ==
    /\ Running
    /\ BagIn(l, rampLoops)
    /\ l.pc = "entry"
    /\ LET startVolume == max(1, l.targetVolume \div 4)
       IN  RampGoesOn(l,
               IF ~volumeRamp \/ l.targetVolume <= 0 THEN << >>
               ELSE IF isPlaying /\ startVolume < l.targetVolume
                    THEN <<[l EXCEPT !.pc = "wait", !.currentVol = startVolume]>>
                    ELSE << >>)
    /\ lastOp' = PlayerOp("volumeRampLoop", l, TRUE)
    /\ UNCHANGED <<clock, config, activeAlarms, mpc, tickNow, callbacks, pending, crashed>>
    /\ UNCHANGED timerVars
    /\ UNCHANGED toneVars
    /\ UNCHANGED lockVars
    /\ UNCHANGED <<currentProcess, isPlaying, volumeRamp, currentVolume, toneFiles, procs,
                   toneWorkers, soundDirs>>

\* volumeRampLoop, case <-ticker.C: one ramp step, setVolume, and the loop
\* condition that follows it
volumeRampStep(l) ==
    /\ Running
    /\ BagIn(l, rampLoops)
    /\ l.pc = "wait"
    /\ LET currentVol == min(l.targetVolume, l.currentVol + 10)
       IN  /\ currentVolume' = currentVol
           /\ RampGoesOn(l,
                  IF isPlaying /\ currentVol < l.targetVolume
                  THEN <<[l EXCEPT !.currentVol = currentVol]>>
                  ELSE << >>)
    /\ lastOp' = PlayerOp("volumeRampStep", l, TRUE)
    /\ UNCHANGED <<clock, config, activeAlarms, mpc, tickNow, callbacks, pending, crashed>>
    /\ UNCHANGED timerVars
    /\ UNCHANGED toneVars
    /\ UNCHANGED lockVars
    /\ UNCHANGED <<currentProcess, isPlaying, volumeRamp, toneFiles, procs,
                   toneWorkers, soundDirs>>

----------------------------------------------------------------------------
(* The callbacks main wires to the alarm scheduler                         *)

\* main: OnAlarmTriggered, up to the first PlayAlarm and its error test
OnAlarmTriggered(cb, startOK) ==
    /\ Running
    /\ BagIn(cb, pending)
    /\ cb.kind = "Triggered" /\ cb.pc = "start"
    /\ LET alarmCfg == AlarmOf(config, cb.id)
           r == PlayAlarmFrom(PlayerState, alarmCfg, startOK)
       IN  /\ WithinBounds(r)
           /\ SetPlayer(r)
           /\ pending' =
                  IF ~r.panic /\ r.err /\ alarmCfg.Source # SourceBuzzer
                  THEN (pending (-) OneOf(cb)) (+) OneOf([cb EXCEPT !.pc = "fallback"])
                  ELSE IF r.panic THEN pending
                  ELSE pending (-) OneOf(cb)
           /\ lastOp' = Op("OnAlarmTriggered", cb.id, ~r.err /\ ~r.panic, clock, NoEvents)
    /\ UNCHANGED <<clock, config, activeAlarms, mpc, tickNow, callbacks>>
    /\ UNCHANGED timerVars
    /\ UNCHANGED toneVars
    /\ UNCHANGED lockVars

\* main: OnAlarmTriggered, the fallback PlayAlarm with the buzzer source
OnAlarmTriggeredFallback(cb, startOK) ==
    /\ Running
    /\ BagIn(cb, pending)
    /\ cb.kind = "Triggered" /\ cb.pc = "fallback"
    /\ LET fallbackAlarm == [AlarmOf(config, cb.id) EXCEPT !.Source = SourceBuzzer]
           r == PlayAlarmFrom(PlayerState, fallbackAlarm, startOK)
       IN  /\ WithinBounds(r)
           /\ SetPlayer(r)
           /\ pending' = IF r.panic THEN pending ELSE pending (-) OneOf(cb)
           /\ lastOp' = Op("OnAlarmTriggeredFallback", cb.id, ~r.err /\ ~r.panic,
                           clock, NoEvents)
    /\ UNCHANGED <<clock, config, activeAlarms, mpc, tickNow, callbacks>>
    /\ UNCHANGED timerVars
    /\ UNCHANGED toneVars
    /\ UNCHANGED lockVars

\* main: OnAlarmSnoozed and OnAlarmStopped both call audioPlayer.Stop()
OnAlarmSnoozedOrStopped(cb) ==
    /\ Running
    /\ BagIn(cb, pending)
    /\ cb.kind \in {"Snoozed", "Stopped"}
    /\ LET r == stopInternal(PlayerState)
       IN  /\ SetPlayer(r)
           /\ pending' = IF r.panic THEN pending ELSE pending (-) OneOf(cb)
           /\ lastOp' = Op("On" \o cb.kind, cb.id, ~r.panic, clock, NoEvents)
    /\ UNCHANGED <<clock, config, activeAlarms, mpc, tickNow, callbacks>>
    /\ UNCHANGED timerVars
    /\ UNCHANGED toneVars
    /\ UNCHANGED lockVars

----------------------------------------------------------------------------
(* Specification of the playback controller                                *)

BuzzerRoot  == "include/sounds/buzzer"
SootherRoot == "include/sounds/soother"

aTone == <<"a", ".", "t", "o", "n", "e">>
bTONE == <<"b", ".", "T", "O", "N", "E">>
sTone == <<"s", ".", "t", "o", "n", "e">>
xTone == <<"x", ".", "t", "o", "n", "e">>
aTxt  == <<"a", ".", "t", "x", "t">>

\* what may be on disk when NewPlayer runs
SoundDirChoices ==
    { [buzzer |-> MissingDir, soother |-> SoundDir(SootherRoot, {})],
      [buzzer |-> SoundDir(BuzzerRoot, {File(aTxt), File(bTONE), File(xTone)}),
       soother |-> SoundDir(SootherRoot, {File(aTone)})],
      [buzzer |-> SoundDir(BuzzerRoot, {Dir(<<"d">>, {File(xTone)}), File(sTone)}),
       soother |-> SoundDir(SootherRoot, {Dir(<<"d">>, {})})],
      [buzzer |-> SoundDir(BuzzerRoot, {Dir(<<"s">>, {File(xTone)}), File(sTone)}),
       soother |-> SoundDir(SootherRoot, {File(aTone)})] }

\* an alarm definition with its volume and ramp flag
WithVolume(alarm, volume, ramp) ==
    [alarm EXCEPT !.Volume = volume, !.VolumeRamp = ramp]

\* alarm definitions handed to PlayAlarm
PlayInputs ==
    { Alarm(1, TRUE, "07:00", Weekdays, SourceBuzzer, ""),
      Alarm(1, TRUE, "07:00", Weekdays, SourceSoother, "custom.tone"),
      WithVolume(Alarm(1, TRUE, "07:00", Weekdays, SourceMP3, "music"), 20, TRUE),
      WithVolume(Alarm(2, TRUE, "07:00", Weekdays, SourceRadio, ""), 3, TRUE),
      WithVolume(Alarm(2, TRUE, "07:00", Weekdays, SourceRadio, "http://radio"), 50, FALSE),
      Alarm(2, TRUE, "07:00", Weekdays, "tape", "") }

\* the configurations the player is constructed with
PlayerConfigs ==
    LET c == Config(Alarm(1, TRUE, "07:00", Weekdays, SourceMP3, "music"),
                    Alarm(2, TRUE, "07:00:01", Weekdays, SourceBuzzer, ""))
    IN  { c,
          [c EXCEPT !.LastMP3Path = "last.mp3"],
          [c EXCEPT !.LastRadioURL = "http://last", !.LastMP3Path = "last.mp3"] }

InitPlayerSpec ==
    /\ InitSched(StartClock)
    /\ callbacks = "sink"
    /\ config \in PlayerConfigs
    /\ \E dirs \in SoundDirChoices : NewPlayer(dirs)
    /\ InitTimer
    /\ InitTone(<< >>)
    /\ InitLocks

NextPlayer ==
    \/ \E a \in PlayInputs, ok \in BOOLEAN : PlayAlarm(a, ok)
    \/ \E ok \in BOOLEAN : PlaySleepAudio(ok)
    \/ Stop
    \/ \E f \in DOMAIN toneWorkers : ToneWorkerDone(f)
    \/ \E l \in DOMAIN rampLoops : volumeRampLoop(l)
    \/ \E l \in DOMAIN rampLoops : volumeRampStep(l)

SpecPlayer == InitPlayerSpec /\ [][NextPlayer]_vars

----------------------------------------------------------------------------
(* Specification of the scheduler with main's callbacks and the player     *)

AppAlarms ==
    { <<WithVolume(Alarm(1, TRUE, "07:00", Weekdays, SourceMP3, "music"), 50, FALSE),
        Alarm(2, TRUE, "07:00:01", Weekdays, SourceBuzzer, "")>> }

\* the sound directories of the application: no pattern file, or one of each kind
AppSoundDirs ==
    { [buzzer |-> MissingDir, soother |-> MissingDir],
      [buzzer |-> SoundDir(BuzzerRoot, {File(aTone)}),
       soother |-> SoundDir(SootherRoot, {File(aTone)})] }

InitApp ==
    /\ InitSched(Instant(MaxInstant - AppInstants))
    /\ callbacks = "main"
    /\ config \in { Config(c[1], c[2]) : c \in AppAlarms }
    /\ \E dirs \in AppSoundDirs : NewPlayer(dirs)
    /\ InitTimer
    /\ InitTone(<< >>)
    /\ InitLocks

NextApp ==
    \/ Advance
    \/ TickRecv
    \/ checkAlarms
    \/ updateActiveAlarms
    \/ \E id \in AlarmIds : SnoozeAlarm(id)
    \/ \E id \in AlarmIds : StopAlarm(id)
    \/ \E cb \in DOMAIN pending, ok \in BOOLEAN : OnAlarmTriggered(cb, ok)
    \/ \E cb \in DOMAIN pending, ok \in BOOLEAN : OnAlarmTriggeredFallback(cb, ok)
    \/ \E cb \in DOMAIN pending : OnAlarmSnoozedOrStopped(cb)
    \/ \E f \in DOMAIN toneWorkers : ToneWorkerDone(f)

SpecApp == InitApp /\ [][NextApp]_vars

----------------------------------------------------------------------------
(* Specification of the timer scheduler                                    *)

\* values the user interface passes to StartSleepTimer and StartSnoozeTimer
SleepInputs == {4, 5, 120, 121}
SnoozeTimerInputs == {5, 7, 30}

InitTimerSpec ==
    /\ InitSched(StartClock)
    /\ callbacks = "sink"
    /\ config \in { Config(c[1], c[2]) : c \in AppAlarms }
    /\ InitPlayer
    /\ InitTimer
    /\ InitTone(<< >>)
    /\ InitLocks

NextTimer ==
    \/ Advance
    \/ TimerTickRecv
    \/ checkTimers
    \/ \E m \in SleepInputs : StartSleepTimer(m)
    \/ \E m \in SnoozeTimerInputs : StartSnoozeTimer(m)
    \/ \E t \in TimerTypes : StopTimer(t)

SpecTimer == InitTimerSpec /\ [][NextTimer]_vars

----------------------------------------------------------------------------
(* The schedulers under any alarm configuration                            *)

\* day masks as a configuration file can hold them: 7 entries, none, one, 8
DayMasks ==
    { Weekdays, << >>, <<TRUE>>,
      <<FALSE, TRUE, TRUE, TRUE, TRUE, TRUE, FALSE, TRUE>> }

\* time strings as a configuration file can hold them
TimeStrings == { "07:00", "07:00:00", "", "7", "25:61:00" }

\* alarm configurations of any shape
AnyAlarms(id) ==
    { Alarm(id, e, t, d, SourceBuzzer, "") :
         e \in BOOLEAN, t \in TimeStrings, d \in DayMasks }

InitAnyConfig ==
    /\ InitSched(StartClock)
    /\ callbacks = "sink"
    /\ \E a1 \in AnyAlarms(1) :
          config = Config(a1, Alarm(2, FALSE, "07:30:00", Weekdays, SourceBuzzer, ""))
    /\ InitPlayer
    /\ InitTimer
    /\ InitTone(<< >>)
    /\ InitLocks

NextAnyConfig ==
    \/ Advance
    \/ TickRecv
    \/ checkAlarms
    \/ updateActiveAlarms
    \/ SnoozeAlarm(1)
    \/ TimerTickRecv
    \/ checkTimers
    \/ (~IsTimerActive(TypeSleep) /\ clock = StartClock /\ StartSleepTimer(5))

SpecAnyConfig == InitAnyConfig /\ [][NextAnyConfig]_vars

----------------------------------------------------------------------------
(* The callbacks main wires to the timer manager, and the sleep timer      *)

\* main: OnTimerStarted: a sleep timer starts the sleep audio
OnTimerStarted(cb, startOK) ==
    /\ Running
    /\ BagIn(cb, pending)
    /\ cb.kind = "TimerStarted"
    /\ LET r == IF cb.id = TypeSleep
                THEN PlaySleepAudioFrom(PlayerState, startOK)
                ELSE PlayerState
       IN  /\ WithinBounds(r)
           /\ SetPlayer(r)
           /\ pending' = IF r.panic THEN pending ELSE pending (-) OneOf(cb)
           /\ lastOp' = Op("OnTimerStarted", cb.id, ~r.err /\ ~r.panic, clock, NoEvents)
    /\ UNCHANGED <<clock, config, activeAlarms, mpc, tickNow, callbacks>>
    /\ UNCHANGED timerVars
    /\ UNCHANGED toneVars
    /\ UNCHANGED lockVars

\* main: OnSleepTimerExpired: audioPlayer.Stop(), then the sleep timer is
\* reset to disabled
OnSleepTimerExpired(cb) ==
    /\ Running
    /\ BagIn(cb, pending)
    /\ cb.kind = "SleepTimerExpired"
    /\ LET r == stopInternal(PlayerState)
       IN  /\ SetPlayer(r)
           /\ config' = IF r.panic THEN config
                        ELSE [config EXCEPT !.SleepTimer.Enabled = FALSE]
           /\ pending' = IF r.panic THEN pending ELSE pending (-) OneOf(cb)
           /\ lastOp' = Op("OnSleepTimerExpired", cb.id, ~r.panic, clock, NoEvents)
    /\ UNCHANGED <<clock, activeAlarms, mpc, tickNow, callbacks>>
    /\ UNCHANGED timerVars
    /\ UNCHANGED toneVars
    /\ UNCHANGED lockVars

\* the user interface leaving the sleep settings: the sleep timer is started
\* with the configured duration if it is enabled
LeaveSleepSettings ==
    /\ config.SleepTimer.Enabled
    /\ StartSleepTimer(config.SleepTimer.Duration)

\* sleep durations in the configuration: 0 as Load leaves it, and 5 minutes
SleepDurations == {0, 5}

InitSleep ==
    /\ InitSched(StartClock)
    /\ callbacks = "main"
    /\ \E c \in PlayerConfigs, d \in SleepDurations :
          config = [c EXCEPT !.SleepTimer = [Enabled |-> TRUE, Duration |-> d]]
    /\ \E dirs \in AppSoundDirs : NewPlayer(dirs)
    /\ InitTimer
    /\ InitTone(<< >>)
    /\ InitLocks

\* The sleep timer is started once: no start while a sleep timer runs or a
\* callback is outstanding, and no StopTimer.  (OnSnoozeTimerExpired and
\* OnTimerStopped only write a log line.)
NextSleep ==
    \/ Advance
    \/ TimerTickRecv
    \/ checkTimers
    \/ (~IsTimerActive(TypeSleep) /\ pending = EmptyBag /\ LeaveSleepSettings)
    \/ \E cb \in DOMAIN pending, ok \in BOOLEAN : OnTimerStarted(cb, ok)
    \/ \E cb \in DOMAIN pending : OnSleepTimerExpired(cb)
    \/ \E f \in DOMAIN toneWorkers : ToneWorkerDone(f)

SpecSleep == InitSleep /\ [][NextSleep]_vars

----------------------------------------------------------------------------
(* The alarm scheduler under fair ticking                                  *)

\* alarms that ring on Monday only, so that every instance is created with
\* more than an hour of modelled time ahead of it
MondayAlarms ==
    { <<Alarm(1, TRUE, "07:00",    MondayOnly, SourceBuzzer, ""),
        Alarm(2, TRUE, "07:00:01", MondayOnly, SourceBuzzer, "")>> }

\* the last instant at which the user still snoozes: Snooze requests are
\* finitely many
LastSnoozeInstant == 4

InitAlarmLive ==
    /\ InitSched(StartClock)
    /\ callbacks = "sink"
    /\ config \in { Config(c[1], c[2]) : c \in MondayAlarms }
    /\ InitPlayer
    /\ InitTimer
    /\ InitTone(<< >>)
    /\ InitLocks

\* StopAlarm is never called.
NextAlarmLive ==
    \/ Advance
    \/ TickRecv
    \/ checkAlarms
    \/ updateActiveAlarms
    \/ \E id \in AlarmIds : clock <= Instant(LastSnoozeInstant) /\ SnoozeAlarm(id)
    \/ \E n \in SnoozeInputs : SetSnoozeTime(n)

\* Time advances, the ticker goes on delivering ticks and monitorLoop runs
\* both checks of every tick it has received.
SpecAlarmLive ==
    /\ InitAlarmLive
    /\ [][NextAlarmLive]_vars
    /\ WF_vars(Advance)
    /\ WF_vars(TickRecv)
    /\ WF_vars(checkAlarms)
    /\ WF_vars(updateActiveAlarms)

----------------------------------------------------------------------------
(* Locks and goroutines                                                    *)
(*                                                                         *)
(* Every function is the sequence of what it does to the locks and to the  *)
(* shared fields.  One instruction takes a lock (Lock / RLock) or not,     *)
(* makes reads and writes of shared fields, and may end in starting a      *)
(* goroutine (`go`); Unlock / RUnlock are the deferred releases.           *)

Ins(op, lock, acc, cb) == [op |-> op, lock |-> lock, acc |-> acc, cb |-> cb]

\* m.mutex.Lock(), the accesses acc (pairs <<field, "r" or "w">>) that follow
\* it and `go cb(...)` ("" for none)
Lock(l, acc, cb)  == Ins("Lock", l, acc, cb)
\* m.mutex.RLock() and the reads that follow it
RLock(l, acc)     == Ins("RLock", l, acc, "")
Unlock(l)         == Ins("Unlock", l, {}, "")
RUnlock(l)        == Ins("RUnlock", l, {}, "")
\* accesses with no lock operation before them, and `go cb(...)`
Access(acc, cb)   == Ins("Access", "", acc, cb)
\* a callback that never returns
Block             == Ins("Block", "", {}, "")

R(field) == <<field, "r">>
W(field) == <<field, "w">>

\* alarm.Manager.checkAlarms, with triggerAlarm
checkAlarmsProg ==
    <<Lock(AlarmMutex, {R("activeAlarms"), W("activeAlarms")}, "OnAlarmTriggered"),
      Unlock(AlarmMutex)>>

\* alarm.Manager.updateActiveAlarms: the case StateTriggered with
\* stopAlarmInternal, the case StateSnoozed
updateActiveAlarmsProg ==
    <<Lock(AlarmMutex, {R("activeAlarms"), W("activeAlarms")}, "OnAlarmStopped"),
      Access({R("activeAlarms"), W("activeAlarms")}, "OnAlarmTriggered"),
      Unlock(AlarmMutex)>>

\* alarm.Manager.SnoozeAlarm
SnoozeAlarmProg ==
    <<Lock(AlarmMutex, {R("activeAlarms"), R("SnoozeMinutes"), W("activeAlarms")},
           "OnAlarmSnoozed"),
      Unlock(AlarmMutex)>>

\* alarm.Manager.StopAlarm, with stopAlarmInternal
StopAlarmProg ==
    <<Lock(AlarmMutex, {R("activeAlarms"), W("activeAlarms")}, "OnAlarmStopped"),
      Unlock(AlarmMutex)>>

\* alarm.Manager.GetActiveAlarms / IsAlarmActive / GetAlarmState /
\* GetSnoozeTimeRemaining
GetAlarmStateProg ==
    <<RLock(AlarmMutex, {R("activeAlarms")}), RUnlock(AlarmMutex)>>

\* alarm.Manager.SetSnoozeTime
SetSnoozeTimeProg == <<Access({W("SnoozeMinutes")}, "")>>

\* timer.Manager.checkTimers
checkTimersProg ==
    <<Lock(TimerMutex, {R("activeTimers"), W("activeTimers")}, "OnSleepTimerExpired"),
      Access({R("activeTimers"), W("activeTimers")}, "OnSnoozeTimerExpired"),
      Unlock(TimerMutex)>>

\* timer.Manager.StartSleepTimer / StartSnoozeTimer
StartSleepTimerProg ==
    <<Lock(TimerMutex, {W("activeTimers")}, "OnTimerStarted"), Unlock(TimerMutex)>>

\* timer.Manager.StopTimer
StopTimerProg ==
    <<Lock(TimerMutex, {R("activeTimers"), W("activeTimers")}, "OnTimerStopped"),
      Unlock(TimerMutex)>>

\* timer.Manager.GetTimeRemaining / IsTimerActive
GetTimeRemainingProg ==
    <<RLock(TimerMutex, {R("activeTimers")}), RUnlock(TimerMutex)>>

\* what Player.stopInternal touches
stopInternalAccess ==
    {R("currentProcess"), W("currentProcess"), W("isPlaying"), W("volumeRamp")}

\* what Player.startPlayback touches
startPlaybackAccess ==
    {W("currentProcess"), W("isPlaying"), W("currentVolume"), W("volumeRamp")}

\* audio.Player.PlayAlarm: stopInternal, startPlayback, go volumeRampLoop
PlayAlarmProg ==
    <<Lock(PlayerMutex, stopInternalAccess \cup startPlaybackAccess, "volumeRampLoop"),
      Unlock(PlayerMutex)>>

\* audio.Player.PlaySleepAudio: stopInternal, startPlayback without ramp
PlaySleepAudioProg ==
    <<Lock(PlayerMutex, stopInternalAccess \cup startPlaybackAccess, ""),
      Unlock(PlayerMutex)>>

\* audio.Player.Stop
StopProg ==
    <<Lock(PlayerMutex, stopInternalAccess, ""), Unlock(PlayerMutex)>>

\* audio.Player.volumeRampLoop with setVolume: the entry test, the loop
\* condition and one step
volumeRampLoopProg ==
    <<Access({R("volumeRamp"), R("isPlaying"), W("currentVolume")}, "")>>

\* the callbacks as main wires them
MainBody(cb) ==
    CASE cb = "OnAlarmTriggered"    -> PlayAlarmProg
      [] cb = "OnAlarmSnoozed"      -> StopProg
      [] cb = "OnAlarmStopped"      -> StopProg
      [] cb = "OnSleepTimerExpired" -> StopProg \o <<Access({W("SleepTimer.Enabled")}, "")>>
      [] cb = "OnTimerStarted"      -> PlaySleepAudioProg
      [] OTHER                      -> << >>

\* callbacks a collaborator may wire instead: one that never returns, and
\* ones that call back into a scheduler
CollaboratorBodies ==
    { <<Block>>, SnoozeAlarmProg, StopAlarmProg, StartSleepTimerProg, StopTimerProg }

\* what the goroutine started by `go cb` may run
Bodies(cb) ==
    IF cb = "volumeRampLoop" THEN {volumeRampLoopProg}
    ELSE {MainBody(cb)} \cup CollaboratorBodies

\* the operations the user interface calls
UserPrograms ==
    { SnoozeAlarmProg, StopAlarmProg, GetAlarmStateProg, SetSnoozeTimeProg,
      StartSleepTimerProg, StopTimerProg, GetTimeRemainingProg }

\* the lock that guards a field
OwnLock(field) ==
    CASE field \in {"activeAlarms", "SnoozeMinutes"} -> AlarmMutex
      [] field = "activeTimers" -> TimerMutex
      [] field \in {"currentProcess", "isPlaying", "volumeRamp", "currentVolume"}
            -> PlayerMutex
      [] OTHER -> ""

\* the locks goroutine t holds
Held(t) == { l \in Locks : mutex[l].writer = t \/ t \in mutex[l].readers }

\* the callback run by the caller itself instead of a new goroutine
Spawn_Inline(t, g, body, rest) == [threads EXCEPT ![t] = body \o rest]

\* `go`: goroutine g runs body, the caller goes on with rest
Spawn(t, g, body, rest) == [threads EXCEPT ![t] = rest, ![g] = body]

\* alarm.Manager.monitorLoop receives a tick
AlarmTick ==
    /\ threads[AlarmLoop] = << >>
    /\ threads' = [threads EXCEPT ![AlarmLoop] = checkAlarmsProg \o updateActiveAlarmsProg]
    /\ UNCHANGED mutex
    /\ UNCHANGED <<schedVars, playerVars, timerVars, toneVars>>

\* timer.Manager.monitorLoop receives a tick
TimerTick ==
    /\ threads[TimerLoop] = << >>
    /\ threads' = [threads EXCEPT ![TimerLoop] = checkTimersProg]
    /\ UNCHANGED mutex
    /\ UNCHANGED <<schedVars, playerVars, timerVars, toneVars>>

\* the user interface calls an operation
UserCall(prog) ==
    /\ threads[UI] = << >>
    /\ threads' = [threads EXCEPT ![UI] = prog]
    /\ UNCHANGED mutex
    /\ UNCHANGED <<schedVars, playerVars, timerVars, toneVars>>

\* goroutine t goes on after instruction ins.  A `go` whose condition does
\* not hold (no callback wired, the branch not taken) or for which no
\* goroutine of the bounded pool is left starts nothing.
Continue(t, ins, rest) ==
    \/ threads' = [threads EXCEPT ![t] = rest]
    \/ \E g \in Goroutines, body \in Bodies(ins.cb) :
          /\ ins.cb # ""
          /\ g # t /\ threads[g] = << >>
          /\ threads' = Spawn(t, g, body, rest)

\* goroutine t executes its next instruction
Step(t) ==
    /\ threads[t] # << >>
    /\ LET ins == Head(threads[t])
           rest == Tail(threads[t])
           l == ins.lock
       IN  CASE ins.op = "Lock" ->
                  /\ mutex[l].writer = NoThread /\ mutex[l].readers = {}
                  /\ mutex' = [mutex EXCEPT ![l].writer = t]
                  /\ Continue(t, ins, rest)
             [] ins.op = "RLock" ->
                  /\ mutex[l].writer = NoThread
                  /\ mutex' = [mutex EXCEPT ![l].readers = @ \cup {t}]
                  /\ Continue(t, ins, rest)
             [] ins.op = "Unlock" ->
                  /\ mutex' = [mutex EXCEPT ![l].writer = NoThread]
                  /\ threads' = [threads EXCEPT ![t] = rest]
             [] ins.op = "RUnlock" ->
                  /\ mutex' = [mutex EXCEPT ![l].readers = @ \ {t}]
                  /\ threads' = [threads EXCEPT ![t] = rest]
             [] ins.op = "Access" ->
                  /\ Continue(t, ins, rest)
                  /\ UNCHANGED mutex
             [] OTHER -> FALSE
    /\ UNCHANGED <<schedVars, playerVars, timerVars, toneVars>>

InitLocksSpec ==
    /\ InitSched(StartClock)
    /\ callbacks = "main"
    /\ config \in { Config(c[1], c[2]) : c \in AppAlarms }
    /\ InitPlayer
    /\ InitTimer
    /\ InitTone(<< >>)
    /\ InitLocks

NextLocks ==
    \/ AlarmTick
    \/ TimerTick
    \/ \E prog \in UserPrograms : UserCall(prog)
    \/ \E t \in ThreadIds : Step(t)

SpecLocks == InitLocksSpec /\ [][NextLocks]_vars

\* The scheduler runs every goroutine that can take a step, and a goroutine
\* waiting for a lock that is released again and again gets it (sync.Mutex
\* hands a starving waiter the lock).
SpecLocksLive ==
    /\ InitLocksSpec
    /\ [][NextLocks]_vars
    /\ \A t \in ThreadIds : SF_lockVars(Step(t))

----------------------------------------------------------------------------
(* Pattern tool: the second program of tone/Tone.go                        *)
(*                                                                         *)
(* A string is the sequence of its characters.  A Duration is counted in   *)
(* milliseconds, a frequency in Hz.                                        *)

\* the table of note names
noteMap ==
    [
     NOTE_B0 |-> 31, NOTE_C1 |-> 33, NOTE_CS1 |-> 35, NOTE_D1 |-> 37, NOTE_DS1 |-> 39,
     NOTE_E1 |-> 41, NOTE_F1 |-> 44, NOTE_FS1 |-> 46, NOTE_G1 |-> 49, NOTE_GS1 |-> 52,
     NOTE_A1 |-> 55, NOTE_AS1 |-> 58, NOTE_B1 |-> 62, NOTE_C2 |-> 65, NOTE_CS2 |-> 69,
     NOTE_D2 |-> 73, NOTE_DS2 |-> 78, NOTE_E2 |-> 82, NOTE_F2 |-> 87, NOTE_FS2 |-> 93,
     NOTE_G2 |-> 98, NOTE_GS2 |-> 104, NOTE_A2 |-> 110, NOTE_AS2 |-> 117, NOTE_B2 |-> 123,
     NOTE_C3 |-> 131, NOTE_CS3 |-> 139, NOTE_D3 |-> 147, NOTE_DS3 |-> 156, NOTE_E3 |-> 165,
     NOTE_F3 |-> 175, NOTE_FS3 |-> 185, NOTE_G3 |-> 196, NOTE_GS3 |-> 208, NOTE_A3 |-> 220,
     NOTE_AS3 |-> 233, NOTE_B3 |-> 247, NOTE_C4 |-> 262, NOTE_CS4 |-> 277, NOTE_D4 |-> 294,
     NOTE_DS4 |-> 311, NOTE_E4 |-> 330, NOTE_F4 |-> 349, NOTE_FS4 |-> 370, NOTE_G4 |-> 392,
     NOTE_GS4 |-> 415, NOTE_A4 |-> 440, NOTE_AS4 |-> 466, NOTE_B4 |-> 494, NOTE_C5 |-> 523,
     NOTE_CS5 |-> 554, NOTE_D5 |-> 587, NOTE_DS5 |-> 622, NOTE_E5 |-> 659, NOTE_F5 |-> 698,
     NOTE_FS5 |-> 740, NOTE_G5 |-> 784, NOTE_GS5 |-> 831, NOTE_A5 |-> 880, NOTE_AS5 |-> 932,
     NOTE_B5 |-> 988, NOTE_C6 |-> 1047, NOTE_CS6 |-> 1109, NOTE_D6 |-> 1175, NOTE_DS6 |-> 1245,
     NOTE_E6 |-> 1319, NOTE_F6 |-> 1397, NOTE_FS6 |-> 1480, NOTE_G6 |-> 1568, NOTE_GS6 |-> 1661,
     NOTE_A6 |-> 1760, NOTE_AS6 |-> 1865, NOTE_B6 |-> 1976, NOTE_C7 |-> 2093, NOTE_CS7 |-> 2217,
     NOTE_D7 |-> 2349, NOTE_DS7 |-> 2489, NOTE_E7 |-> 2637, NOTE_F7 |-> 2794, NOTE_FS7 |-> 2960,
     NOTE_G7 |-> 3136, NOTE_GS7 |-> 3322, NOTE_A7 |-> 3520, NOTE_AS7 |-> 3729, NOTE_B7 |-> 3951,
     NOTE_C8 |-> 4186, NOTE_CS8 |-> 4435, NOTE_D8 |-> 4699, NOTE_DS8 |-> 4978
    ]

\* Command{...}; the fields a literal leaves out are zero
Command(type, freq, duration, count, cmds) ==
    [Type |-> type, Freq |-> freq, Duration |-> duration, Count |-> count,
     Commands |-> cmds]

\* the value of a decimal digit, -1 for every other character
DigitValue(c) ==
    CASE c = "0" -> 0 [] c = "1" -> 1 [] c = "2" -> 2 [] c = "3" -> 3 [] c = "4" -> 4
      [] c = "5" -> 5 [] c = "6" -> 6 [] c = "7" -> 7 [] c = "8" -> 8 [] c = "9" -> 9
      [] OTHER -> -1

\* the number the digits s spell after the digits that gave acc; -1 when s
\* holds a character that is no digit
RECURSIVE Decimal(_, _)
Decimal(s, acc) ==
    IF s = << >> THEN acc
    ELSE IF DigitValue(s[1]) < 0 THEN -1
    ELSE Decimal(Tail(s), 10 * acc + DigitValue(s[1]))

\* strconv.Atoi: an optional sign and at least one digit
Atoi(s) ==
    LET signed == s # << >> /\ s[1] \in {"+", "-"}
        digits == IF signed THEN Tail(s) ELSE s
        n      == Decimal(digits, 0)
    IN  IF digits = << >> \/ n < 0 THEN [n |-> 0, err |-> "invalid syntax"]
        ELSE [n |-> IF signed /\ s[1] = "-" THEN 0 - n ELSE n, err |-> ""]

\* strconv.ParseFloat(s, 64) on the words of the pattern files used here: a
\* decimal integer gives its value; none of the other words (note names,
\* durations with a unit, keywords, braces, "x") spells a float.
ParseFloat(s) ==
    LET r == Atoi(s) IN [f |-> r.n, err |-> r.err]

\* strings.TrimSuffix
TrimSuffix(s, suffix) ==
    IF Len(s) >= Len(suffix) /\ SubSeq(s, Len(s) - Len(suffix) + 1, Len(s)) = suffix
    THEN SubSeq(s, 1, Len(s) - Len(suffix))
    ELSE s

\* strings.Fields, the only white space being the space
RECURSIVE Fields(_)
Fields(s) ==
    IF s = << >> THEN << >>
    ELSE IF s[1] = " " THEN Fields(Tail(s))
    ELSE LET spaces == { i \in 1 .. Len(s) : s[i] = " " }
             n == IF spaces = {} THEN Len(s)
                  ELSE (CHOOSE i \in spaces : \A j \in spaces : i <= j) - 1
         IN  <<SubSeq(s, 1, n)>> \o Fields(SubSeq(s, n + 1, Len(s)))

\* strings.Join
RECURSIVE StringsJoin(_, _)
StringsJoin(elems, sep) ==
    IF elems = << >> THEN << >>
    ELSE IF Len(elems) = 1 THEN elems[1]
    ELSE elems[1] \o sep \o StringsJoin(Tail(elems), sep)

\* parseFreq without the look-up in noteMap
parseFreq_NumbersOnly(s) ==
    ParseFloat(s)

\* parseFreq
parseFreq(s) ==
    IF Str(s) \in DOMAIN noteMap THEN [f |-> noteMap[Str(s)], err |-> ""]
    ELSE ParseFloat(s)

\* parseDuration
parseDuration(s) ==
    LET ms == Atoi(TrimSuffix(s, <<"m", "s">>))
    IN  IF ms.err # "" THEN [d |-> 0, err |-> ms.err]
        ELSE [d |-> ms.n, err |-> ""]

\* tokens[i], i counted from 0 as in the source
Token(tokens, i) == tokens[i + 1]

\* return nil, err with the commands parsed so far kept
Fail_Partial(cmds, err) == [commands |-> cmds, err |-> err]

\* return nil, err
Fail(cmds, err) == [commands |-> << >>, err |-> err]

\* parseCommands: the search for the closing brace
RECURSIVE FindClose(_, _, _)
FindClose(tokens, end, braceCount) ==
    IF end < Len(tokens) /\ braceCount > 0
    THEN FindClose(tokens, end + 1,
                   IF Str(Token(tokens, end)) = "{" THEN braceCount + 1
                   ELSE IF Str(Token(tokens, end)) = "}" THEN braceCount - 1
                   ELSE braceCount)
    ELSE [end |-> end, braceCount |-> braceCount]

RECURSIVE parseCommands(_)
RECURSIVE ParseTokens(_, _, _)

\* parseCommands: the loop `for i := 0; i < len(tokens);` from index i on,
\* with the commands appended so far
ParseTokens(tokens, i, cmds) ==
    IF ~(i < Len(tokens)) THEN [commands |-> cmds, err |-> ""]
    ELSE CASE Str(Token(tokens, i)) = "tone" ->
                IF i + 2 >= Len(tokens) THEN Fail(cmds, "tone needs 2 parameters")
                ELSE LET freq == parseFreq(Token(tokens, i + 1))
                         duration == parseDuration(Token(tokens, i + 2))
                     IN  IF freq.err # "" THEN Fail(cmds, freq.err)
                         ELSE IF duration.err # "" THEN Fail(cmds, duration.err)
                         ELSE ParseTokens(tokens, i + 3,
                                  Append(cmds, Command("tone", freq.f, duration.d, 0, << >>)))
           [] Str(Token(tokens, i)) = "delay" ->
                IF i + 1 >= Len(tokens) THEN Fail(cmds, "delay needs 1 parameter")
                ELSE LET duration == parseDuration(Token(tokens, i + 1))
                     IN  IF duration.err # "" THEN Fail(cmds, duration.err)
                         ELSE ParseTokens(tokens, i + 2,
                                  Append(cmds, Command("delay", 0, duration.d, 0, << >>)))
           [] Str(Token(tokens, i)) = "loop" ->
                IF i + 2 >= Len(tokens) \/ Str(Token(tokens, i + 2)) # "{"
                THEN Fail(cmds, "loop syntax: loop COUNT { ... }")
                ELSE LET count == Atoi(Token(tokens, i + 1))
                         start == i + 3
                         close == FindClose(tokens, start, 1)
                         end   == close.end
                         \* tokens[start:end-1]
                         loopContent == StringsJoin(SubSeq(tokens, start + 1, end - 1), <<" ">>)
                         loopCommands == parseCommands(loopContent)
                     IN  IF count.err # "" THEN Fail(cmds, count.err)
                         ELSE IF close.braceCount > 0 THEN Fail(cmds, "closing } missing")
                         ELSE IF loopCommands.err # "" THEN Fail(cmds, loopCommands.err)
                         ELSE ParseTokens(tokens, end,
                                  Append(cmds, Command("loop", 0, 0, count.n,
                                                       loopCommands.commands)))
           [] OTHER -> ParseTokens(tokens, i + 1, cmds)

\* parseCommands
parseCommands(input) == ParseTokens(Fields(input), 0, << >>)

\* parseFile: the lines of the file, each followed by a space
RECURSIVE Content(_)
Content(lines) ==
    IF lines = << >> THEN << >> ELSE lines[1] \o <<" ">> \o Content(Tail(lines))

\* parseFile of a file that can be opened
parseFile(lines) == parseCommands(Content(lines))

\* what playTone and time.Sleep are called with
Emission(cmd) == [Type |-> cmd.Type, Freq |-> cmd.Freq, Duration |-> cmd.Duration]

\* a call of executeCommands at the i-th command of its range loop
RangeFrame(cmds) == [kind |-> "range", commands |-> cmds, i |-> 0, count |-> 0]

\* the loop `for i := 0; i < cmd.Count; i++` of a "loop" command
LoopFrame(cmd) == [kind |-> "loop", commands |-> cmd.Commands, i |-> 0, count |-> cmd.Count]

\* main up to the call of executeCommands: parseFile, and the return on an error
ToneMain ==
    /\ tonePc = "main"
    /\ LET r == parseFile(file)
       IN  /\ commands' = r.commands
           /\ parseErr' = r.err
           /\ IF r.err # ""
              THEN /\ tonePc' = "exit"
                   /\ callStack' = << >>
              ELSE /\ tonePc' = "exec"
                   /\ callStack' = <<RangeFrame(r.commands)>>
    /\ UNCHANGED <<file, played>>
    /\ UNCHANGED <<schedVars, playerVars, timerVars>>
    /\ UNCHANGED lockVars

\* a loop frame that runs its body once more whatever its counter says
LoopGoesOn_Always(frame) == frame.i < frame.count \/ frame.i = 0

\* the test `i < cmd.Count` of the loop of a "loop" command
LoopGoesOn(frame) == frame.i < frame.count

\* executeCommands, one command or one loop test at a time
executeCommands ==
    /\ tonePc = "exec"
    /\ LET d     == Len(callStack)
           top   == callStack[d]
           below == SubSeq(callStack, 1, d - 1)
           next  == [top EXCEPT !.i = top.i + 1]
       IN  /\ IF top.kind = "range"
              THEN IF top.i >= Len(top.commands)
                   THEN /\ callStack' = below
                        /\ UNCHANGED played
                   ELSE LET cmd == top.commands[top.i + 1]
                        IN  CASE cmd.Type \in {"tone", "delay"} ->
                                   /\ played' = Append(played, Emission(cmd))
                                   /\ callStack' = Append(below, next)
                              [] cmd.Type = "loop" ->
                                   /\ callStack' = Append(below, next) \o <<LoopFrame(cmd)>>
                                   /\ UNCHANGED played
                              [] OTHER ->
                                   /\ callStack' = Append(below, next)
                                   /\ UNCHANGED played
              ELSE IF LoopGoesOn(top)
                   THEN /\ callStack' = Append(below, next) \o <<RangeFrame(top.commands)>>
                        /\ UNCHANGED played
                   ELSE /\ callStack' = below
                        /\ UNCHANGED played
           /\ tonePc' = IF callStack' = << >> THEN "exit" ELSE "exec"
    /\ UNCHANGED <<file, commands, parseErr>>
    /\ UNCHANGED <<schedVars, playerVars, timerVars>>
    /\ UNCHANGED lockVars

----------------------------------------------------------------------------
(* Spec of the pattern tool: every file of up to MaxLines of these lines   *)

wTone   == <<"t", "o", "n", "e">>
wDelay  == <<"d", "e", "l", "a", "y">>
wLoop   == <<"l", "o", "o", "p">>
wOpen   == <<"{">>
wClose  == <<"}">>
wNoteA4 == <<"N", "O", "T", "E", "_", "A", "4">>
wNoteC5 == <<"N", "O", "T", "E", "_", "C", "5">>
wA4     == <<"A", "4">>
wC5     == <<"C", "5">>
w440    == <<"4", "4", "0">>
w200ms  == <<"2", "0", "0", "m", "s">>
w100ms  == <<"1", "0", "0", "m", "s">>
w50ms   == <<"5", "0", "m", "s">>
w3      == <<"3">>
w2      == <<"2">>
w0      == <<"0">>
wMinus1 == <<"-", "1">>
wX      == <<"x">>

\* a line of words
Line(words) == StringsJoin(words, <<" ">>)

ExampleLine ==
    Line(<<wTone, wA4, w200ms, wDelay, w100ms, wLoop, w3, wOpen, wTone, wC5, w50ms, wClose>>)
NoteExampleLine ==
    Line(<<wTone, wNoteA4, w200ms, wDelay, w100ms, wLoop, w3, wOpen,
           wTone, wNoteC5, w50ms, wClose>>)
ToneLine       == Line(<<wTone, wNoteA4, w200ms>>)
DelayLine      == Line(<<wDelay, w100ms>>)
LoopLine       == Line(<<wLoop, w2, wOpen>>)
LoopZeroLine   == Line(<<wLoop, w0, wOpen>>)
LoopMinusLine  == Line(<<wLoop, wMinus1, wOpen>>)
CloseLine      == Line(<<wClose>>)
OpenToneLine   == Line(<<wOpen, wTone, w440, w100ms>>)
NoBraceLine    == Line(<<wLoop, w3, wTone, wA4, w100ms>>)
BadBodyLine    == Line(<<wLoop, w2, wOpen, wTone, w440, w100ms, wDelay, wX, wClose>>)

ToneLines ==
    {ExampleLine, NoteExampleLine, ToneLine, DelayLine, LoopLine, LoopZeroLine,
     LoopMinusLine, CloseLine, OpenToneLine, NoBraceLine, BadBodyLine}

ToneScripts == UNION { [1 .. n -> ToneLines] : n \in 0 .. MaxLines }

InitToneSpec ==
    /\ InitSched(StartClock)
    /\ callbacks = "sink"
    /\ config \in { Config(c[1], c[2]) : c \in AppAlarms }
    /\ InitPlayer
    /\ InitTimer
    /\ \E lines \in ToneScripts : InitTone(lines)
    /\ InitLocks

NextTone ==
    \/ ToneMain
    \/ executeCommands

SpecTone == InitToneSpec /\ [][NextTone]_vars

\* main leaves its first position
ToneMainReturns == tonePc = "main" /\ tonePc' \in {"exec", "exit"}

\* The pattern tool is one goroutine that nothing holds up: main is not kept
\* from returning from parseFile (the only step that leaves "main" is
\* ToneMain), and executeCommands not from its next command.
SpecToneLive ==
    InitToneSpec /\ [][NextTone]_vars
        /\ WF_tonePc(ToneMainReturns) /\ WF_vars(executeCommands)

----------------------------------------------------------------------------
(* Properties of the alarm scheduler                                       *)

Instance(id) == activeAlarms[id]

EventCount(kind, id, events) ==
    BagCardinality([cb \in { c \in DOMAIN events : c.kind = kind /\ c.id = id }
                       |-> events[cb]])

OthersUnchanged(id) ==
    \A o \in AlarmIds \ {id} :
        /\ (o \in DOMAIN activeAlarms) = (o \in DOMAIN activeAlarms')
        /\ o \in DOMAIN activeAlarms => activeAlarms'[o] = activeAlarms[o]

\* the alarm's time string brought to HH:MM:SS
NormalizedTime(str) == IF Len(str) = 5 THEN str \o ":00" ELSE str

C1_Due(a, t) ==
    /\ a.Enabled
    /\ a.Days[Weekday(t) + 1]
    /\ Format(t) = NormalizedTime(a.Time)

C2_SnoozeRefused ==
    [][\A id \in AlarmIds :
         ( /\ lastOp'.op = "SnoozeAlarm"
           /\ lastOp'.id = id
           /\ GetAlarmState(id) \in {StateOff, StateSnoozed} )
         => /\ lastOp'.ret = FALSE
            /\ lastOp'.events = NoEvents
            /\ activeAlarms' = activeAlarms]_vars

\* C2 witness: SnoozeAlarm has been refused on an alarm that is Snoozed.
C2_Witness ==
    /\ lastOp.op = "SnoozeAlarm"
    /\ lastOp.ret = FALSE
    /\ GetAlarmState(lastOp.id) = StateSnoozed

\* C3: SnoozeAlarm(id) on a Triggered alarm returns true, makes that instance
\* Snoozed with snooze-until = time of the call + the configured snooze
\* minutes, emits exactly one Snoozed event carrying that duration, and
\* changes no other instance.
C3_SnoozeAccepted ==
    [][\A id \in AlarmIds :
         ( /\ lastOp'.op = "SnoozeAlarm"
           /\ lastOp'.id = id
           /\ GetAlarmState(id) = StateTriggered )
         => /\ lastOp'.ret = TRUE
            /\ id \in DOMAIN activeAlarms'
            /\ activeAlarms'[id].State = StateSnoozed
            /\ activeAlarms'[id].SnoozeUntil = clock + 60 * config.SnoozeMinutes
            /\ activeAlarms'[id].StartTime = activeAlarms[id].StartTime
            /\ lastOp'.events =
                   OneOf(Callback("Snoozed", id, 60 * config.SnoozeMinutes))
            /\ OthersUnchanged(id)]_vars

\* C3 witness: an alarm has been snoozed with a 60-minute snooze configured
\* while the other alarm has an instance.
C3_Witness ==
    /\ lastOp.op = "SnoozeAlarm"
    /\ lastOp.ret = TRUE
    /\ config.SnoozeMinutes = 60
    /\ DOMAIN activeAlarms = AlarmIds
    /\ Instance(lastOp.id).SnoozeUntil = clock + 3600

\* C4 as stated: the first tick whose time is at or after snooze-until puts
\* the Snoozed instance back in Triggered and emits Triggered once.
C4_RetriggerAtOrAfter ==
    [][lastOp'.op = "updateActiveAlarms" =>
         \A id \in DOMAIN activeAlarms :
             ( /\ Instance(id).State = StateSnoozed
               /\ tickNow >= Instance(id).SnoozeUntil )
             => /\ id \in DOMAIN activeAlarms'
                /\ activeAlarms'[id].State = StateTriggered
                /\ EventCount("Triggered", id, lastOp'.events) = 1]_vars

\* C4 amended: a tick whose time is strictly after snooze-until puts the
\* Snoozed instance back in Triggered and emits Triggered exactly once; a tick
\* whose time is before or equal to snooze-until leaves it Snoozed and emits
\* nothing for it; a tick on an instance that is already Triggered emits no
\* Triggered event for it.
C4_RetriggerAfter ==
    [][lastOp'.op \in {"checkAlarms", "updateActiveAlarms"} =>
         \A id \in DOMAIN activeAlarms :
             IF /\ lastOp'.op = "updateActiveAlarms"
                /\ Instance(id).State = StateSnoozed
                /\ tickNow > Instance(id).SnoozeUntil
             THEN /\ id \in DOMAIN activeAlarms'
                  /\ activeAlarms'[id] =
                         [Instance(id) EXCEPT !.State = StateTriggered]
                  /\ EventCount("Triggered", id, lastOp'.events) = 1
             ELSE /\ EventCount("Triggered", id, lastOp'.events) = 0
                  /\ Instance(id).State = StateSnoozed
                       => /\ id \in DOMAIN activeAlarms'
                          /\ activeAlarms'[id] = Instance(id)]_vars

\* C4 witness: a tick has put a snoozed instance back in Triggered.
C4_Witness ==
    /\ lastOp.op = "updateActiveAlarms"
    /\ \E id \in DOMAIN activeAlarms :
          /\ Instance(id).State = StateTriggered
          /\ Instance(id).SnoozeUntil > 0
          /\ lastOp.at > Instance(id).SnoozeUntil
          /\ EventCount("Triggered", id, lastOp.events) = 1

\* C5: a tick whose time is 60 minutes or more after the start time of a
\* Triggered instance removes the instance and emits Stopped exactly once; a
\* tick never removes a Triggered instance younger than 60 minutes.
C5_SixtyMinuteStop ==
    [][lastOp'.op \in {"checkAlarms", "updateActiveAlarms"} =>
         \A id \in DOMAIN activeAlarms :
             Instance(id).State = StateTriggered =>
                 IF /\ lastOp'.op = "updateActiveAlarms"
                    /\ tickNow - Instance(id).StartTime >= 3600
                 THEN /\ id \notin DOMAIN activeAlarms'
                      /\ EventCount("Stopped", id, lastOp'.events) = 1
                 ELSE /\ id \in DOMAIN activeAlarms'
                      /\ activeAlarms'[id] = Instance(id)
                      /\ EventCount("Stopped", id, lastOp'.events) = 0]_vars

\* C5 witness: a tick has removed an instance and emitted Stopped for it.
C5_Witness ==
    /\ lastOp.op = "updateActiveAlarms"
    /\ \E id \in AlarmIds :
          /\ id \notin DOMAIN activeAlarms
          /\ EventCount("Stopped", id, lastOp.events) = 1

\* C6: StopAlarm(id) on an alarm with an instance, Triggered or Snoozed,
\* removes it, returns true and emits exactly one Stopped event; with no
\* instance it returns false, emits nothing and changes nothing; the other
\* alarm's instance is unchanged in both cases.
C6_Stop ==
    [][\A id \in AlarmIds :
         (lastOp'.op = "StopAlarm" /\ lastOp'.id = id) =>
             /\ OthersUnchanged(id)
             /\ id \notin DOMAIN activeAlarms'
             /\ IF id \in DOMAIN activeAlarms
                THEN /\ lastOp'.ret = TRUE
                     /\ lastOp'.events = OneOf(Callback("Stopped", id, 0))
                ELSE /\ lastOp'.ret = FALSE
                     /\ lastOp'.events = NoEvents
                     /\ activeAlarms' = activeAlarms]_vars

\* C6 witness: the stop of an alarm has succeeded while the other alarm
\* keeps its Snoozed instance.
C6_Witness ==
    /\ lastOp.op = "StopAlarm"
    /\ lastOp.ret = TRUE
    /\ lastOp.id \notin DOMAIN activeAlarms
    /\ \E o \in DOMAIN activeAlarms : Instance(o).State = StateSnoozed

\* C7: an alarm's state changes only Off -> Triggered (by a tick on a time
\* and day match), Triggered -> Snoozed (by SnoozeAlarm), Snoozed -> Triggered
\* (by a tick after snooze-until), Triggered or Snoozed -> Off (by StopAlarm)
\* and Triggered -> Off (by a tick at 60 minutes); every instance is Triggered
\* or Snoozed.
C7_StateMachine ==
    [][\A id \in AlarmIds :
         LET from == GetAlarmState(id)
             to   == GetAlarmState(id)'
         IN  /\ to \in {StateOff, StateTriggered, StateSnoozed}
             /\ id \in DOMAIN activeAlarms' => to # StateOff
             /\ from # to =>
                  \/ /\ from = StateOff /\ to = StateTriggered
                     /\ lastOp'.op = "checkAlarms"
                     /\ C1_Due(AlarmOf(config, id), tickNow)
                  \/ /\ from = StateTriggered /\ to = StateSnoozed
                     /\ lastOp'.op = "SnoozeAlarm" /\ lastOp'.id = id
                  \/ /\ from = StateSnoozed /\ to = StateTriggered
                     /\ lastOp'.op = "updateActiveAlarms"
                     /\ tickNow > Instance(id).SnoozeUntil
                  \/ /\ from \in {StateTriggered, StateSnoozed} /\ to = StateOff
                     /\ lastOp'.op = "StopAlarm" /\ lastOp'.id = id
                  \/ /\ from = StateTriggered /\ to = StateOff
                     /\ lastOp'.op = "updateActiveAlarms"
                     /\ tickNow - Instance(id).StartTime >= 3600]_vars

\* C7 witness: an alarm that went Off -> Triggered -> Snoozed -> Triggered has
\* been switched off by the 60-minute limit.
C7_Witness ==
    /\ lastOp.op = "updateActiveAlarms"
    /\ \E id \in AlarmIds :
          /\ id \notin DOMAIN activeAlarms
          /\ EventCount("Stopped", id, lastOp.events) = 1
    /\ config.SnoozeMinutes = 60

----------------------------------------------------------------------------
(* Properties of main's callbacks and the playback controller              *)

\* C9: when the PlayAlarm call of the Triggered callback fails, also in the
\* fallback attempt, the alarm instances stay as they are and the process
\* keeps running, so that SnoozeAlarm and StopAlarm can still be called.
C9_FailedPlaybackKeepsAlarm ==
    [][( /\ lastOp'.op \in {"OnAlarmTriggered", "OnAlarmTriggeredFallback"}
         /\ lastOp'.ret = FALSE )
       => /\ activeAlarms' = activeAlarms
          /\ Running']_vars

\* C10: after two consecutive successful PlayAlarm calls exactly one playback
\* is live: what the first call started is gone when the second has started
\* its own.
C10_OneLivePlayback ==
    [][( /\ lastOp.op = "PlayAlarm" /\ lastOp.ret = TRUE
         /\ lastOp'.op = "PlayAlarm" /\ lastOp'.ret = TRUE )
       => LivePlaybacks' = 1]_vars

\* the fields of the Player and what it has started
Playback == <<currentProcess, isPlaying, volumeRamp, currentVolume, procs, toneWorkers>>

\* the pattern files below a directory, each as the sequence of the names on
\* its path
RECURSIVE FilesBelow(_, _)
FilesBelow(path, entries) ==
    UNION { IF e.dir THEN FilesBelow(Append(path, e.name), e.entries)
            ELSE IF HasToneSuffix(e.name) THEN {Append(path, e.name)}
            ELSE {} : e \in entries }

PatternFiles(d) == IF d.exists THEN FilesBelow(<< >>, d.entries) ELSE {}

\* the path written with separators
RECURSIVE Flat(_)
Flat(names) ==
    IF Len(names) = 1 THEN names[1] ELSE names[1] \o <<"/">> \o Flat(Tail(names))

PathString(d, names) == d.root \o "/" \o Str(Flat(names))

\* the smallest path, the paths compared as strings
SmallestPath(files) ==
    CHOOSE f \in files : \A g \in files \ {f} : LexLess(Flat(f), Flat(g))

\* p before q, the paths compared name by name
RECURSIVE NamesLess(_, _)
NamesLess(p, q) ==
    IF p = << >> THEN q # << >>
    ELSE IF q = << >> THEN FALSE
    ELSE IF p[1] = q[1] THEN NamesLess(Tail(p), Tail(q))
    ELSE LexLess(p[1], q[1])

FirstByNames(files) ==
    CHOOSE f \in files : \A g \in files \ {f} : NamesLess(f, g)

ToneKinds == {SourceBuzzer, SourceSoother}

\* the call of the last step was PlayAlarm with a source of the given kinds
PlayAlarmWith(kinds) ==
    /\ lastOp'.op = "PlayAlarm"
    /\ lastOp'.arg.alarm.Source \in kinds

\* the path PlayAlarm hands to startPlayback for an mp3 or radio alarm
C12_Path(alarm) ==
    IF alarm.AlarmSourceValue # "" THEN alarm.AlarmSourceValue
    ELSE IF alarm.Source = SourceMP3 THEN config.LastMP3Path
    ELSE config.LastRadioURL

\* C11: Stop() never fails; it ends the external process the player holds
\* and leaves no process handle, not playing, ramp off; with no live session
\* it changes nothing; a Stop() that follows a Stop() changes nothing.
C11_StopIdempotent ==
    [][lastOp'.op = "Stop" =>
         /\ Running'
         /\ currentProcess' = NoProcess /\ ~isPlaying' /\ ~volumeRamp'
         /\ currentProcess # NoProcess => procs' = procs (-) OneOf(currentProcess[1])
         /\ (~isPlaying /\ BagCardinality(procs) = 0) => Playback' = Playback
         /\ lastOp.op = "Stop" => Playback' = Playback]_vars

\* C12: when the external player process fails to start, PlayAlarm and
\* PlaySleepAudio return an error and the player holds no process handle and
\* is not playing; no Stop, PlayAlarm or PlaySleepAudio call ends the program.
C12_StartFailureLeavesNoSession ==
    [][/\ ( \/ /\ PlayAlarmWith({SourceMP3, SourceRadio})
               /\ C12_Path(lastOp'.arg.alarm) # ""
               /\ ~lastOp'.arg.startOK
            \/ /\ lastOp'.op = "PlaySleepAudio"
               /\ config.LastRadioURL # "" \/ config.LastMP3Path # ""
               /\ ~lastOp'.arg.startOK )
          => /\ lastOp'.ret = FALSE
             /\ currentProcess' = NoProcess
             /\ ~isPlaying'
       /\ lastOp'.op \in {"Stop", "PlayAlarm", "PlaySleepAudio"} => Running']_vars

\* C13: PlayAlarm with a buzzer or soother source, no explicit pattern path
\* and no pattern file in the directory returns an error, starts no tone
\* worker and no process, and leaves the player not playing.
C13_NoPatternFile ==
    [][( /\ PlayAlarmWith(ToneKinds)
         /\ lastOp'.arg.alarm.AlarmSourceValue = ""
         /\ PatternFiles(soundDirs[lastOp'.arg.alarm.Source]) = {} )
       => /\ Running'
          /\ lastOp'.ret = FALSE
          /\ toneWorkers' = toneWorkers
          /\ procs' \sqsubseteq procs
          /\ ~isPlaying']_vars

C15_UnknownSourceChangesNothing ==
    [][( /\ lastOp'.op = "PlayAlarm"
         /\ lastOp'.arg.alarm.Source \notin
                {SourceBuzzer, SourceSoother, SourceMP3, SourceRadio} )
       => /\ Running'
          /\ lastOp'.ret = FALSE
          /\ Playback' = Playback]_vars

\* C16: PlaySleepAudio leaves nothing of the session before it live and plays
\* the last radio URL when set, else the last mp3 path when set, else the
\* first soother pattern, at volume 50 with the ramp off; it returns an error
\* when neither is set and there is no soother pattern.
C16_SleepAudio ==
    [][lastOp'.op = "PlaySleepAudio" =>
         LET path == IF config.LastRadioURL # "" THEN config.LastRadioURL
                     ELSE config.LastMP3Path
             d == soundDirs.soother
             playing == isPlaying' /\ currentVolume' = 50 /\ ~volumeRamp'
         IN  /\ Running'
             /\ IF path # ""
                THEN lastOp'.arg.startOK =>
                        /\ lastOp'.ret
                        /\ procs' = OneOf(Cmd(path, 50, TRUE))
                        /\ toneWorkers' = EmptyBag
                        /\ playing
                ELSE IF PatternFiles(d) # {}
                THEN /\ lastOp'.ret
                     /\ procs' = EmptyBag
                     /\ toneWorkers' = OneOf(PathString(d, FirstByNames(PatternFiles(d))))
                     /\ playing
                ELSE /\ lastOp'.ret = FALSE
                     /\ LivePlaybacks' = 0]_vars

\* C17: a session started with the ramp on and target volume V in 1..100 has
\* the current volume max(1, V/4) at its start; each ramp step of its loop
\* raises the current volume by 10, never above V and never downwards.
C17_RampFromQuarter ==
    [][/\ ( /\ PlayAlarmWith({SourceMP3, SourceRadio})
            /\ lastOp'.ret
            /\ lastOp'.arg.alarm.VolumeRamp
            /\ lastOp'.arg.alarm.Volume \in 1 .. 100 )
          => currentVolume' = max(1, lastOp'.arg.alarm.Volume \div 4)
       /\ ( /\ lastOp'.op = "volumeRampStep"
            /\ ~lastOp'.arg.stopped )
          => /\ currentVolume' = min(lastOp'.arg.targetVolume, currentVolume + 10)
             /\ currentVolume' >= currentVolume
             /\ currentVolume' <= lastOp'.arg.targetVolume]_vars

\* C18: a ramp loop started before a Stop() (or before the stop a later
\* PlayAlarm begins with) returns at its next step and changes the current
\* volume no more.
C18_StoppedRampEnds ==
    [][( /\ lastOp'.op \in {"volumeRampLoop", "volumeRampStep"}
         /\ lastOp'.arg.stopped )
       => /\ currentVolume' = currentVolume
          /\ rampLoops' = rampLoops (-) OneOf(lastOp'.arg)]_vars

----------------------------------------------------------------------------
(* Properties of the timer scheduler                                       *)

\* C19: StartSleepTimer(m) with 5 <= m <= 120 returns true, installs an
\* active sleep timer that starts now and ends m minutes later, and emits
\* exactly one Started event; with m < 5 or m > 120 it returns false, emits
\* nothing and leaves the timers unchanged.
C19_StartSleepTimer ==
    [][\A m \in SleepInputs :
         (lastOp'.op = "StartSleepTimer" /\ lastOp'.id = m) =>
             IF 5 <= m /\ m <= 120
             THEN /\ lastOp'.ret = TRUE
                  /\ TypeSleep \in DOMAIN activeTimers'
                  /\ activeTimers'[TypeSleep].IsActive
                  /\ activeTimers'[TypeSleep].StartTime = clock
                  /\ activeTimers'[TypeSleep].EndTime = clock + 60 * m
                  /\ lastOp'.events = OneOf(Callback("TimerStarted", TypeSleep, 60 * m))
                  /\ \A t \in TimerTypes \ {TypeSleep} :
                         /\ (t \in DOMAIN activeTimers') = (t \in DOMAIN activeTimers)
                         /\ t \in DOMAIN activeTimers => activeTimers'[t] = activeTimers[t]
             ELSE /\ lastOp'.ret = FALSE
                  /\ lastOp'.events = NoEvents
                  /\ activeTimers' = activeTimers]_vars

\* C19 witness: a sleep timer of 5 minutes has replaced one of 120 minutes.
C19_Witness ==
    /\ lastOp.op = "StartSleepTimer"
    /\ lastOp.id = 5
    /\ lastOp.ret = TRUE
    /\ IsTimerActive(TypeSleep)
    /\ activeTimers[TypeSleep].EndTime = clock + 300
    /\ lastOp.at > StartClock

\* C20 as stated: while the sleep timer is active, GetTimeRemaining(Sleep)
\* never increases, whatever operation is performed.
C20_RemainingNeverIncreases ==
    [][(IsTimerActive(TypeSleep) /\ IsTimerActive(TypeSleep)')
         => GetTimeRemaining(TypeSleep)' <= GetTimeRemaining(TypeSleep)]_vars

\* C20 amended: while the sleep timer is active, GetTimeRemaining(Sleep)
\* never increases except by a StartSleepTimer that replaces the timer, and
\* it decreases by the time that passes until it is zero; it is never
\* negative, and it is zero when the timer is inactive.
C20_RemainingDecreasesUntilRestart ==
    [][/\ ( /\ IsTimerActive(TypeSleep) /\ IsTimerActive(TypeSleep)'
            /\ lastOp'.op # "StartSleepTimer" )
          => /\ GetTimeRemaining(TypeSleep)' <= GetTimeRemaining(TypeSleep)
             /\ GetTimeRemaining(TypeSleep)' =
                    max(0, GetTimeRemaining(TypeSleep) - (clock' - clock))
       /\ GetTimeRemaining(TypeSleep)' >= 0
       /\ ~IsTimerActive(TypeSleep)' => GetTimeRemaining(TypeSleep)' = 0]_vars

\* C20 witness: the clock has passed the end of a sleep timer that the tick
\* has not yet cleared, and the remaining time is zero.
C20_Witness ==
    /\ lastOp.op = "Advance"
    /\ IsTimerActive(TypeSleep)
    /\ clock > activeTimers[TypeSleep].EndTime
    /\ GetTimeRemaining(TypeSleep) = 0

\* the timer of type t is the same before and after the step
TimerUnchanged(t) ==
    /\ (t \in DOMAIN activeTimers') = (t \in DOMAIN activeTimers)
    /\ t \in DOMAIN activeTimers => activeTimers'[t] = activeTimers[t]

\* C21: StartSnoozeTimer(m) returns true, installs an active snooze timer
\* that ends m minutes from now and emits exactly one Started event exactly
\* when m is 5, 10, 15 or 30; for every other m it returns false, emits
\* nothing and leaves the timers unchanged.
C21_StartSnoozeTimer ==
    [][\A m \in SnoozeTimerInputs :
         (lastOp'.op = "StartSnoozeTimer" /\ lastOp'.id = m) =>
             IF m \in {5, 10, 15, 30}
             THEN /\ lastOp'.ret = TRUE
                  /\ IsTimerActive(TypeSnooze)'
                  /\ activeTimers'[TypeSnooze].StartTime = clock
                  /\ activeTimers'[TypeSnooze].Duration = 60 * m
                  /\ activeTimers'[TypeSnooze].EndTime = clock + 60 * m
                  /\ lastOp'.events = OneOf(Callback("TimerStarted", TypeSnooze, 60 * m))
                  /\ TimerUnchanged(TypeSleep)
             ELSE /\ lastOp'.ret = FALSE
                  /\ lastOp'.events = NoEvents
                  /\ activeTimers' = activeTimers]_vars

\* C21 witness: a snooze timer of 30 minutes has been started after the
\* first instant.
C21_Witness ==
    /\ lastOp.op = "StartSnoozeTimer"
    /\ lastOp.id = 30
    /\ lastOp.ret = TRUE
    /\ IsTimerActive(TypeSnooze)
    /\ activeTimers[TypeSnooze].EndTime = clock + 1800
    /\ lastOp.at > StartClock

\* C22: StopTimer(type) on an active timer removes it, returns true and
\* emits exactly one Stopped event for that type; on a type without an
\* active timer it returns false, emits nothing and changes nothing.
C22_StopTimer ==
    [][\A t \in TimerTypes :
         (lastOp'.op = "StopTimer" /\ lastOp'.id = t) =>
             IF IsTimerActive(t)
             THEN /\ lastOp'.ret = TRUE
                  /\ t \notin DOMAIN activeTimers'
                  /\ lastOp'.events = OneOf(Callback("TimerStopped", t, 0))
                  /\ EventCount("TimerStopped", t, lastOp'.events) = 1
                  /\ \A o \in TimerTypes \ {t} : TimerUnchanged(o)
             ELSE /\ lastOp'.ret = FALSE
                  /\ lastOp'.events = NoEvents
                  /\ activeTimers' = activeTimers]_vars

\* C22 witness: the snooze timer has been stopped while the sleep timer
\* goes on.
C22_Witness ==
    /\ lastOp.op = "StopTimer"
    /\ lastOp.id = TypeSnooze
    /\ lastOp.ret = TRUE
    /\ ~IsTimerActive(TypeSnooze)
    /\ IsTimerActive(TypeSleep)

\* the expiry callbacks a step dispatches for the timer of type t
ExpiryCount(t) ==
    IF lastOp' = lastOp THEN 0
    ELSE EventCount(ExpiredCallback(t).kind, t, lastOp'.events)

\* C23 as stated: a tick removes every active timer whose end time has been
\* reached (tick time at or after the end time) with one expiry callback.
C23_RemovesAtEndTime ==
    [][lastOp'.op = "checkTimers" =>
         \A t \in DOMAIN activeTimers :
             (activeTimers[t].IsActive /\ timerNow >= activeTimers[t].EndTime)
                 => /\ t \notin DOMAIN activeTimers'
                    /\ ExpiryCount(t) = 1]_vars

\* C23 amended: a tick removes every active timer whose end time lies
\* strictly before the tick's time, with exactly one expiry callback of the
\* matching type; a timer whose end time is the tick's time or later is left
\* unchanged with no callback; no other operation dispatches an expiry
\* callback, and a timer that expired is gone, so that one start never
\* produces two expiry callbacks.
C23_RemovesAfterEndTime ==
    [][/\ lastOp'.op = "checkTimers" =>
            \A t \in TimerTypes :
                IF IsTimerActive(t) /\ timerNow > activeTimers[t].EndTime
                THEN /\ t \notin DOMAIN activeTimers'
                     /\ ExpiryCount(t) = 1
                     /\ \A c \in DOMAIN lastOp'.events :
                            c.id = t =>
                                c.kind = (IF t = TypeSleep THEN "SleepTimerExpired"
                                          ELSE "SnoozeTimerExpired")
                ELSE /\ TimerUnchanged(t)
                     /\ ExpiryCount(t) = 0
       /\ lastOp'.op # "checkTimers" =>
            \A t \in TimerTypes :
                /\ EventCount("SleepTimerExpired", t, lastOp'.events) = 0
                /\ EventCount("SnoozeTimerExpired", t, lastOp'.events) = 0]_vars

\* C23 witness: a tick taken one second after its end has removed the sleep
\* timer and dispatched the sleep-expired callback, while the snooze timer,
\* which ends later, goes on.
C23_Witness ==
    /\ lastOp.op = "checkTimers"
    /\ lastOp.events = OneOf(Callback("SleepTimerExpired", TypeSleep, 0))
    /\ ~IsTimerActive(TypeSleep)
    /\ IsTimerActive(TypeSnooze)

\* C24: there is at most one timer per type (the timer kept for a type is of
\* that type); a successful start of one type replaces the timer of that
\* type with one of the new start time, duration and end time; and a start,
\* a stop or an expiry of one type leaves the timer of the other type
\* unchanged.
C24_OneTimerPerType ==
    [][/\ \A t \in DOMAIN activeTimers' :
             t \in TimerTypes /\ activeTimers'[t].Type = t
       /\ \A t \in TimerTypes :
             LET o == IF t = TypeSleep THEN TypeSnooze ELSE TypeSleep
                 startOp == IF t = TypeSleep THEN "StartSleepTimer"
                            ELSE "StartSnoozeTimer"
             IN  /\ (lastOp'.op = startOp /\ lastOp'.ret = TRUE)
                        => /\ activeTimers'[t] = Timer(t, clock, 60 * lastOp'.id)
                           /\ TimerUnchanged(o)
                 /\ (lastOp'.op = "StopTimer" /\ lastOp'.id = t)
                        => TimerUnchanged(o)
                 /\ ( /\ lastOp'.op = "checkTimers"
                      /\ t \in DOMAIN activeTimers
                      /\ t \notin DOMAIN activeTimers'
                      /\ ~(IsTimerActive(o) /\ timerNow > activeTimers[o].EndTime) )
                        => TimerUnchanged(o)]_vars

\* C24 witness: a snooze timer has been started in place of an earlier one
\* while a sleep timer started earlier goes on unchanged.
C24_Witness ==
    /\ lastOp.op = "StartSnoozeTimer"
    /\ lastOp.ret = TRUE
    /\ IsTimerActive(TypeSleep)
    /\ activeTimers[TypeSleep].StartTime < clock
    /\ activeTimers[TypeSnooze].StartTime = clock
    /\ clock > StartClock + 1

\* the program the example of the specification stands for
ExampleProgram ==
    <<Command("tone", 440, 200, 0, << >>),
      Command("delay", 0, 100, 0, << >>),
      Command("loop", 0, 0, 3, <<Command("tone", 523, 50, 0, << >>)>>)>>

\* the tokens of a file
FileTokens(lines) == Fields(Content(lines))

\* the number of "{" less the number of "}" among the first n tokens
BraceDepth(tokens, n) ==
    Cardinality({ i \in 1 .. n : Str(tokens[i]) = "{" })
        - Cardinality({ i \in 1 .. n : Str(tokens[i]) = "}" })

\* every "}" closes a "{" that is open, and no "{" stays open
Balanced(tokens) ==
    /\ \A n \in 1 .. Len(tokens) : BraceDepth(tokens, n) >= 0
    /\ BraceDepth(tokens, Len(tokens)) = 0

\* the braces are balanced and every "{" follows "loop" and a count
BracesOfLoops(tokens) ==
    /\ Balanced(tokens)
    /\ \A i \in 1 .. Len(tokens) :
           Str(tokens[i]) = "{" => (i >= 3 /\ Str(tokens[i - 2]) = "loop")

\* C25 as stated: parsing "tone A4 200ms delay 100ms loop 3 { tone C5 50ms }"
\* succeeds and yields [Tone(440,200ms), Delay(100ms), Loop(3,[Tone(523,50ms)])].
C25_ExampleParses ==
    (tonePc # "main" /\ file = <<ExampleLine>>)
        => (parseErr = "" /\ commands = ExampleProgram)

\* C25 amended: with the notes written as the table names them, parsing
\* "tone NOTE_A4 200ms delay 100ms loop 3 { tone NOTE_C5 50ms }" succeeds and
\* yields [Tone(440,200ms), Delay(100ms), Loop(3,[Tone(523,50ms)])], while the
\* example with A4 and C5 is refused; and a loop around lines with balanced
\* braces that parse on their own has their program as its nested program.
C25_NoteExampleParses ==
    tonePc # "main" =>
        /\ file = <<NoteExampleLine>> => (parseErr = "" /\ commands = ExampleProgram)
        /\ file = <<ExampleLine>> => (parseErr # "" /\ commands = << >>)
        /\ \A n \in 1 .. MaxLines - 2 : \A body \in [1 .. n -> ToneLines] :
               ( /\ file = <<LoopLine>> \o body \o <<CloseLine>>
                 /\ Balanced(FileTokens(body))
                 /\ parseFile(body).err = "" )
                   => /\ parseErr = ""
                      /\ commands =
                             <<Command("loop", 0, 0, 2, parseFile(body).commands)>>

\* C25 witness: the example written with NOTE_A4 and NOTE_C5 inside a loop
\* has been parsed into a loop whose nested program is the example program.
C25_Witness ==
    /\ file = <<LoopLine, NoteExampleLine, CloseLine>>
    /\ tonePc = "exec"
    /\ played = << >>
    /\ commands = <<Command("loop", 0, 0, 2, ExampleProgram)>>

\* C26: parsing "loop 3 tone A4 100ms" fails and returns no instruction, and
\* every parse error, also one inside the body of a loop that follows
\* well-formed instructions, leaves the caller without any instruction:
\* nothing is executed.
C26_ErrorReturnsNothing ==
    tonePc # "main" =>
        /\ parseErr # "" => (commands = << >> /\ played = << >> /\ tonePc = "exit")
        /\ file = <<NoBraceLine>> => parseErr # ""
        /\ (Len(file) >= 1 /\ file[Len(file)] = BadBodyLine) => parseErr # ""

\* C26 witness: the parse has failed inside a loop body that follows a
\* well-formed tone instruction.
C26_Witness ==
    /\ file = <<ToneLine, BadBodyLine>>
    /\ tonePc = "exit"
    /\ parseErr # ""
    /\ commands = << >>

\* C27: every file whose braces are unbalanced, or hold a "{" or "}" that
\* belongs to no loop, is refused with a parse error.
C27_UnbalancedRejected ==
    (tonePc # "main" /\ ~BracesOfLoops(FileTokens(file))) => parseErr # ""

\* s repeated n times
RECURSIVE Repeat(_, _)
Repeat(s, n) == IF n <= 0 THEN << >> ELSE s \o Repeat(s, n - 1)

\* the tones and delays of a program in source order, each loop body
\* written out as often as its loop runs
RECURSIVE Unroll(_)
Unroll(cmds) ==
    IF cmds = << >> THEN << >>
    ELSE (IF cmds[1].Type = "loop" THEN Repeat(Unroll(cmds[1].Commands), cmds[1].Count)
          ELSE <<Emission(cmds[1])>>)
         \o Unroll(Tail(cmds))

\* the sum, over the instructions of the given type, of the product of the
\* counts of the loops around them
RECURSIVE CountProducts(_, _, _)
CountProducts(cmds, type, factor) ==
    IF cmds = << >> THEN 0
    ELSE (IF cmds[1].Type = "loop"
          THEN CountProducts(cmds[1].Commands, type, factor * cmds[1].Count)
          ELSE IF cmds[1].Type = type THEN factor ELSE 0)
         + CountProducts(Tail(cmds), type, factor)

\* the same sum with a count below zero taken as zero
RECURSIVE RunProducts(_, _, _)
RunProducts(cmds, type, factor) ==
    IF cmds = << >> THEN 0
    ELSE (IF cmds[1].Type = "loop"
          THEN RunProducts(cmds[1].Commands, type, factor * max(0, cmds[1].Count))
          ELSE IF cmds[1].Type = type THEN factor ELSE 0)
         + RunProducts(Tail(cmds), type, factor)

\* the emissions of the given type performed so far
Performed(type) == Cardinality({ i \in 1 .. Len(played) : played[i].Type = type })

\* C28 as stated: the number of tone emissions of an executed program is the
\* sum over its tone instructions of the product of the counts of the loops
\* around them.
C28_CountProduct ==
    [](tonePc = "exit" /\ parseErr = ""
          => Performed("tone") = CountProducts(commands, "tone", 1))

\* C28 amended: executing a parsed program terminates, having run its
\* instructions depth-first in source order; a loop runs its nested program
\* count times when count >= 0 and not at all when count < 0, so the number
\* of tone emissions is the sum over the tone instructions of the product of
\* the counts of the loops around them with a negative count taken as zero
\* (4 tones and 1 delay for the example program).
C28_ExecutesDepthFirst ==
    /\ [](tonePc = "exit" /\ parseErr = ""
            => /\ played = Unroll(commands)
               /\ Performed("tone") = RunProducts(commands, "tone", 1)
               /\ Performed("delay") = RunProducts(commands, "delay", 1)
               /\ commands = ExampleProgram
                      => (Performed("tone") = 4 /\ Performed("delay") = 1))
    /\ [](tonePc = "exec" => \E n \in 0 .. Len(Unroll(commands)) :
                                 played = SubSeq(Unroll(commands), 1, n))
    /\ <>(tonePc = "exit")

\* C28 witness: a loop of count 2 around the example program has been
\* executed: 8 tones and 2 delays.
C28_Witness ==
    /\ tonePc = "exit"
    /\ commands = <<Command("loop", 0, 0, 2, ExampleProgram)>>
    /\ Performed("tone") = 8
    /\ Performed("delay") = 2

\* C29: when the PlayAlarm of the Triggered callback has failed for an alarm
\* whose source is not buzzer, the second attempt with the buzzer source
\* plays a buzzer pattern file whenever one has been discovered.
C29_FallbackPlaysBuzzer ==
    [][( /\ lastOp'.op = "OnAlarmTriggeredFallback"
         /\ lastOp' # lastOp
         /\ Len(toneFiles.buzzer) > 0 )
       => /\ Running'
          /\ lastOp'.ret = TRUE
          /\ \E i \in 1 .. Len(toneFiles.buzzer) :
                 BagIn(toneFiles.buzzer[i], toneWorkers')]_vars

\* C30: when an alarm is Snoozed, no other alarm is Triggered and every
\* dispatched callback has run, no playback is live, in whatever order the
\* Triggered and Snoozed callbacks ran.
C30_SnoozedIsSilent ==
    ( /\ Running
      /\ pending = EmptyBag
      /\ \E id \in AlarmIds :
             /\ GetAlarmState(id) = StateSnoozed
             /\ \A o \in AlarmIds \ {id} : GetAlarmState(o) # StateTriggered )
        => LivePlaybacks = 0

\* C32: there is at most one active instance per alarm id, and a tick whose
\* time matches an alarm that already has an instance (Triggered or Snoozed)
\* creates no instance, emits no Triggered event and leaves that instance's
\* state, start time and snooze-until as they were.
C32_MatchingTickKeepsInstance ==
    [][ /\ DOMAIN activeAlarms' \subseteq AlarmIds
        /\ lastOp'.op = "checkAlarms" /\ mpc = "checkAlarms"
              => \A id \in DOMAIN activeAlarms :
                     /\ id \in DOMAIN activeAlarms'
                     /\ activeAlarms'[id] = activeAlarms[id]
                     /\ EventCount("Triggered", id, lastOp'.events) = 0 ]_vars

\* C32 witness: checkAlarms has run with a time that matches an alarm whose
\* instance was Snoozed, and it dispatched nothing.
C32_Witness ==
    /\ lastOp.op = "checkAlarms"
    /\ lastOp.events = NoEvents
    /\ \E id \in DOMAIN activeAlarms :
           /\ IsAlarmActive(AlarmOf(config, id), lastOp.at)
           /\ activeAlarms[id].State = StateSnoozed
           /\ activeAlarms[id].StartTime = lastOp.at

\* a step of the monitor loop's tick
TickStep == lastOp'.op \in {"checkAlarms", "updateActiveAlarms"} /\ lastOp' # lastOp

\* C36: the 60 minutes run from the instance's original trigger time: no
\* step changes the start time of an instance that stays, a tick never
\* removes a Snoozed instance, and a tick that finds an instance Triggered
\* with its start 60 minutes or more before the tick time (as after a snooze
\* that ended that late) removes it and emits Stopped.
C36_LimitFromOriginalTrigger ==
    [][\A id \in DOMAIN activeAlarms :
          /\ (id \in DOMAIN activeAlarms' /\ lastOp'.op # "checkAlarms")
                => activeAlarms'[id].StartTime = activeAlarms[id].StartTime
          /\ (TickStep /\ activeAlarms[id].State = StateSnoozed)
                => /\ id \in DOMAIN activeAlarms'
                   /\ activeAlarms'[id].StartTime = activeAlarms[id].StartTime
                   /\ EventCount("Stopped", id, lastOp'.events) = 0
          /\ ( /\ lastOp'.op = "updateActiveAlarms" /\ mpc = "updateActiveAlarms"
               /\ activeAlarms[id].State = StateTriggered
               /\ tickNow - activeAlarms[id].StartTime >= Minutes(60) )
                => /\ id \notin DOMAIN activeAlarms'
                   /\ EventCount("Stopped", id, lastOp'.events) = 1 ]_vars

\* C36 witness: a tick has just taken an instance from Snoozed back to
\* Triggered whose start lies 60 minutes or more before the tick time.
C36_Witness ==
    /\ lastOp.op = "updateActiveAlarms"
    /\ \E id \in DOMAIN activeAlarms :
           /\ EventCount("Triggered", id, lastOp.events) = 1
           /\ activeAlarms[id].State = StateTriggered
           /\ activeAlarms[id].SnoozeUntil > 0
           /\ lastOp.at - activeAlarms[id].StartTime >= Minutes(60)

StoppedCount(t) ==
    IF lastOp' = lastOp THEN 0 ELSE EventCount("TimerStopped", t, lastOp'.events)

\* the step is a tick that removes the timer of type t
Expires(t) == lastOp'.op = "checkTimers" /\ t \notin DOMAIN activeTimers'

\* the step is a StopTimer(t) that returns true
Stops(t) == lastOp'.op = "StopTimer" /\ lastOp'.id = t /\ lastOp'.ret = TRUE

\* the step is a start of type t that returns true
Replaces(t) ==
    /\ lastOp'.op = (IF t = TypeSleep THEN "StartSleepTimer" ELSE "StartSnoozeTimer")
    /\ lastOp'.ret = TRUE

\* C40: a started timer ends in exactly one way.  A step either leaves the
\* timer of a type as it is and dispatches no expiry and no Stopped callback
\* for the type, or it is the expiry of that very timer (tick time after its
\* end, one expiry callback, no Stopped), or a StopTimer returning true (one
\* Stopped, no expiry), or a start of the same type that puts a new timer in
\* its place (neither callback).  For a type without a timer, as after a
\* stop, no expiry and no Stopped callback is dispatched.
C40_TimerEndsOneWay ==
    [][lastOp' # lastOp =>
        \A t \in TimerTypes :
           IF t \notin DOMAIN activeTimers
           THEN ExpiryCount(t) = 0 /\ StoppedCount(t) = 0
           ELSE /\ ~(Expires(t) \/ Stops(t) \/ Replaces(t))
                    => /\ TimerUnchanged(t)
                       /\ ExpiryCount(t) = 0 /\ StoppedCount(t) = 0
                /\ Expires(t)
                    => /\ timerNow > activeTimers[t].EndTime
                       /\ ExpiryCount(t) = 1 /\ StoppedCount(t) = 0
                /\ Stops(t)
                    => /\ t \notin DOMAIN activeTimers'
                       /\ ExpiryCount(t) = 0 /\ StoppedCount(t) = 1
                /\ Replaces(t)
                    => /\ activeTimers'[t] = Timer(t, clock, Minutes(lastOp'.id))
                       /\ ExpiryCount(t) = 0 /\ StoppedCount(t) = 0 ]_vars

\* C40 witness: StopTimer has returned true for the sleep timer while a tick
\* received at an earlier instant still waits to run checkTimers.
C40_Witness ==
    /\ lastOp.op = "StopTimer" /\ lastOp.id = TypeSleep /\ lastOp.ret = TRUE
    /\ timerNow # 0
    /\ timerNow < clock

\* C35: a tick cannot fail: for every alarm configuration (any enabled flag,
\* any time string, a day mask of any length) and every tick time,
\* checkAlarms, updateActiveAlarms and checkTimers run to their end and the
\* process goes on.
C35_TickCannotFail ==
    [][lastOp'.op \in {"checkAlarms", "updateActiveAlarms", "checkTimers"}
          => Running' /\ lastOp'.ret = TRUE]_vars

\* the tick that waits for checkAlarms carries the date and the HH:MM:SS of
\* the tick that triggered the instance of alarm id
TriggeredAgain(id) ==
    /\ mpc = "checkAlarms"
    /\ id \in DOMAIN activeAlarms
    /\ tickNow \div 86400 = activeAlarms[id].StartTime \div 86400
    /\ Format(tickNow) = Format(activeAlarms[id].StartTime)

\* C38: an alarm triggers at most once per matching day and time: when
\* StopAlarm(id) removes an instance while a tick that carries the same day
\* and the same HH:MM:SS as the tick that triggered it waits for checkAlarms,
\* that checkAlarms, which triggers exactly the alarms of ToTrigger, does not
\* trigger the alarm again.
C38_OncePerDayAndTime ==
    [][\A id \in AlarmIds :
          ( /\ TriggeredAgain(id)
            /\ lastOp'.op = "StopAlarm" /\ lastOp'.id = id /\ lastOp'.ret = TRUE
            /\ lastOp' # lastOp )
             => ~( /\ id \notin DOMAIN activeAlarms'
                  /\ IsAlarmActive(AlarmOf(config', id), tickNow') )]_vars

\* C39: while alarm 1 is Triggered and the player process started for it is
\* alive, no operation on alarm 2 and no callback of alarm 2 leaves the
\* player without a live playback: a playback stays live until alarm 1
\* itself is snoozed, stopped or timed out.
C39_OtherAlarmDoesNotSilence ==
    [][( /\ GetAlarmState(1) = StateTriggered
         /\ \E c \in DOMAIN procs : c.path = AlarmOf(config, 1).AlarmSourceValue
         /\ 1 \in DOMAIN activeAlarms' /\ activeAlarms'[1] = activeAlarms[1]
         /\ lastOp' # lastOp
         /\ lastOp'.id = 2 )
       => LivePlaybacks' >= 1]_vars

\* C31: the sleep timer switches the audio off.  After a successful
\* StartSleepTimer with no StopTimer and no new start, the expiry callback
\* stops the playback and the process goes on, and once the timer has
\* expired and every dispatched callback (Started and Expired) has run, no
\* playback is live.
C31_SleepTimerSwitchesOff ==
    /\ [][lastOp'.op = "OnSleepTimerExpired" /\ lastOp' # lastOp
            => Running' /\ lastOp'.ret = TRUE]_vars
    /\ []( ( /\ ~config.SleepTimer.Enabled
             /\ ~IsTimerActive(TypeSleep)
             /\ \A cb \in DOMAIN pending :
                    cb.kind \notin {"TimerStarted", "SleepTimerExpired"} \/ cb.id # TypeSleep )
           => LivePlaybacks = 0 )

\* C37: under fair ticking with advancing time and finitely many Snooze
\* requests, every active alarm instance is eventually removed and its
\* alarm reports Off again, though StopAlarm is never called.
C37_InstanceEventuallyRemoved ==
    \A id \in AlarmIds :
        (id \in DOMAIN activeAlarms) ~> (GetAlarmState(id) = StateOff)

\* C37 witness: a tick has removed the instance of alarm 1 after 60 minutes,
\* with the snooze time set to 60 minutes, and the alarm reports Off.
C37_Witness ==
    /\ lastOp.op = "updateActiveAlarms"
    /\ EventCount("Stopped", 1, lastOp.events) = 1
    /\ GetAlarmState(1) = StateOff
    /\ config.SnoozeMinutes = 60

\* goroutine t is in the middle of a function
Busy(t) == threads[t] # << >>

\* goroutine t runs a callback that never returns
NeverReturns(t) == \E i \in 1 .. Len(threads[t]) : threads[t][i].op = "Block"

UnderOwnLock(t, field, kind) ==
    LET l == OwnLock(field)
    IN  \/ mutex'[l].writer = t
        \/ kind = "r" /\ t \in mutex'[l].readers

\* C34: every read and write of a component's shared state (the active
\* alarms and the snooze minutes, the active timers, the player's process
\* handle, is-playing flag, ramp flag and current volume) is made with that
\* component's lock held, by the volume-ramp loop and SetSnoozeTime as by
\* the others, and no goroutine ever holds the locks of two components.
C34_AccessesUnderOwnLock ==
    /\ [][\A t \in ThreadIds :
             (Busy(t) /\ threads'[t] # threads[t])
                => \A a \in Head(threads[t]).acc :
                       OwnLock(a[1]) # "" => UnderOwnLock(t, a[1], a[2])]_vars
    /\ [](\A t \in ThreadIds : Cardinality(Held(t)) <= 1)

====
